---- MODULE Spec2Model ----
(***************************************************************************)
(* Fuel Theft Monitor: the detection engine of src/js/fuel-monitor.js      *)
(* (FuelMonitor and AlertManager) as a state machine.                      *)
(*                                                                         *)
(* Time is counted in milliseconds, as the Date values of the source are;  *)
(* durationMinutes, a quotient of milliseconds by 60000 in the source, is  *)
(* carried as its numerator (a count of milliseconds), so that every       *)
(* comparison and Math.round is exact.  Fuel levels are whole percents     *)
(* (the source multiplies the raw fraction by 100; the feed's data field   *)
(* is carried in hundredths).  null and undefined are the number 0, which  *)
(* is falsy in the source's tests (if (feedToken), if (pollInterval),      *)
(* lastAlertTime && ...).                                                  *)
(***************************************************************************)
EXTENDS Integers, Sequences, FiniteSets, TLC

null == 0

\* ---------------------------------------------------------------- constants
MsPerMinute == 60000
MsPerSecond == 1000
DEDUP_WINDOW_MS == 300000
VerifyLookbackMs == 300000
RetentionMs == 7200000
MaxHistoryEntries == 500
CriticalDrop == 25
CriticalMinutes == 10
HighDrop == 15
HighMinutes == 20
MaxSavedAlerts == 100

DefaultConfig ==
    [dropThreshold |-> 10, timeWindowMinutes |-> 30, pollIntervalSeconds |-> 30]

\* ------------------------------------------------------------------- bounds
MaxHist == 2
MaxTasks == 2
MaxPolls == 2
MaxBatch == 2
MaxVersion == 2
MaxStarts == 1

\* ----------------------------------------------------------------- inputs
Vehicles == {"v1", "v2"}

\* Instants (ms) at which readings are stamped: t0, t0+5min, t0+12min,
\* t0+12.5min, t0+42min (30 minutes after t0+12min).
Instants == {0, 5 * MsPerMinute, 12 * MsPerMinute, 12 * MsPerMinute + 30 * MsPerSecond,
             42 * MsPerMinute}

Levels == {42, 50, 55, 70}

Readings == [timestamp : Instants, level : Levels]

Configs ==
    { DefaultConfig,
      [dropThreshold |-> 5, timeWindowMinutes |-> 5, pollIntervalSeconds |-> 10] }

SeqsUpTo(S, n) == UNION { [1..k -> S] : k \in 0..n }

VARIABLES
    \* FuelMonitor, the item fuelMonitorConfig of localStorage and the class of the
    \* status indicator
    isMonitoring, pollInterval, feedToken, vehicleCache, fuelHistory, config,
    storedConfig, status,
    \* how the startMonitoring call that settled last ended for its caller
    startResult,
    \* AlertManager, and the item fuelMonitorAlerts of localStorage
    alerts, alertIdCounter, recentAlerts, storedAlerts,
    \* the runtime: the clock, the armed interval timers and the number of timer ids
    \* issued, the startMonitoring calls awaiting the registry, the pollForFuelData
    \* invocations in flight and how many were made
    now, timers, timerSeq, starts, tasks, polls,
    \* the analyzeHistoricalData invocation
    scan,
    \* harness: the inputs of a pure function and what it returned
    arg, ret

vars == <<isMonitoring, pollInterval, feedToken, vehicleCache, fuelHistory, config,
          storedConfig, status, startResult,
          alerts, alertIdCounter, recentAlerts, storedAlerts,
          now, timers, timerSeq, starts, tasks, polls, scan, arg, ret>>

engineVars == <<isMonitoring, pollInterval, feedToken, vehicleCache, fuelHistory>>
configVars == <<config, storedConfig>>
statusVars == <<status, startResult>>
sinkVars == <<alerts, alertIdCounter, recentAlerts, storedAlerts>>
runtimeVars == <<timers, timerSeq, starts, tasks, polls, scan>>

\* ------------------------------------------------------------ DropDetector
NoDetection == [none |-> TRUE]

\* Mutant: the window's start is excluded.
recentReadings_OpenStart(history, currentPoint) ==
    LET windowStart == currentPoint.timestamp - config.timeWindowMinutes * MsPerMinute
    IN  SelectSeq(history,
                  LAMBDA h : h.timestamp > windowStart /\ h.timestamp < currentPoint.timestamp)

\* Mutant: the window takes in the instant of the candidate.
recentReadings_ClosedEnd(history, currentPoint) ==
    LET windowStart == currentPoint.timestamp - config.timeWindowMinutes * MsPerMinute
    IN  SelectSeq(history,
                  LAMBDA h : h.timestamp >= windowStart /\ h.timestamp <= currentPoint.timestamp)

\* history.filter(h => h.timestamp >= windowStart && h.timestamp < currentPoint.timestamp)
recentReadings(history, currentPoint) ==
    LET windowStart == currentPoint.timestamp - config.timeWindowMinutes * MsPerMinute
    IN  SelectSeq(history,
                  LAMBDA h : h.timestamp >= windowStart /\ h.timestamp < currentPoint.timestamp)

\* recentReadings.reduce((max, r) => r.level > max.level ? r : max, recentReadings[0])
RECURSIVE reduceMax(_, _, _)
reduceMax(rs, i, max) ==
    IF i > Len(rs) THEN max
    ELSE reduceMax(rs, i + 1, IF rs[i].level > max.level THEN rs[i] ELSE max)

maxReading(recent) == reduceMax(recent, 1, recent[1])

\* Mutant: the drop must exceed the threshold.
detectSuspiciousDrop_StrictThreshold(history, currentPoint) ==
    IF Len(history) = 0 THEN NoDetection
    ELSE LET recent == recentReadings(history, currentPoint)
         IN  IF Len(recent) = 0 THEN NoDetection
             ELSE LET max == maxReading(recent)
                      dropPercent == max.level - currentPoint.level
                      durationMs == currentPoint.timestamp - max.timestamp
                  IN  IF /\ dropPercent > config.dropThreshold
                         /\ durationMs <= config.timeWindowMinutes * MsPerMinute
                      THEN [dropPercent |-> dropPercent,
                            previousLevel |-> max.level,
                            currentLevel |-> currentPoint.level,
                            durationMs |-> durationMs,
                            previousTimestamp |-> max.timestamp]
                      ELSE NoDetection

detectSuspiciousDrop(history, currentPoint) ==
    IF Len(history) = 0 THEN NoDetection
    ELSE LET recent == recentReadings(history, currentPoint)
         IN  IF Len(recent) = 0 THEN NoDetection
             ELSE LET max == maxReading(recent)
                      dropPercent == max.level - currentPoint.level
                      durationMs == currentPoint.timestamp - max.timestamp
                  IN  IF /\ dropPercent >= config.dropThreshold
                         /\ durationMs <= config.timeWindowMinutes * MsPerMinute
                      THEN [dropPercent |-> dropPercent,
                            previousLevel |-> max.level,
                            currentLevel |-> currentPoint.level,
                            durationMs |-> durationMs,
                            previousTimestamp |-> max.timestamp]
                      ELSE NoDetection

\* ------------------------------------------------------- SeverityClassifier
\* Mutant: the drop bounds are not strict.
determineSeverity_Inclusive(dropPercent, durationMs) ==
    IF dropPercent >= CriticalDrop /\ durationMs < CriticalMinutes * MsPerMinute
    THEN "critical"
    ELSE IF dropPercent >= HighDrop /\ durationMs < HighMinutes * MsPerMinute
         THEN "high"
         ELSE "medium"

determineSeverity(dropPercent, durationMs) ==
    IF dropPercent > CriticalDrop /\ durationMs < CriticalMinutes * MsPerMinute
    THEN "critical"
    ELSE IF dropPercent > HighDrop /\ durationMs < HighMinutes * MsPerMinute
         THEN "high"
         ELSE "medium"

\* Math.round of a quotient n/d, d > 0: floor(n/d + 1/2).
MathRound(n, d) == (2 * n + d) \div (2 * d)

\* ------------------------------------------------------- StationaryVerifier
\* The two range queries of checkVehicleState: 5 minutes before the reading, to it.
verifyQuery(deviceId, timestamp) ==
    [deviceId |-> deviceId, fromDate |-> timestamp - VerifyLookbackMs, toDate |-> timestamp]

\* An answer of the telemetry collaborator: ok = FALSE is a rejected call.
IgnitionAnswers == [ok : BOOLEAN, data : SeqsUpTo({0, 1}, 2)]
TripAnswers == [ok : BOOLEAN, data : SeqsUpTo({"trip"}, 2)]

\* Mutant: the first ignition reading of the window decides, not the latest.
afterIgnition_First(answer) ==
    IF ~answer.ok THEN "true"
    ELSE IF Len(answer.data) > 0 /\ answer.data[1] # 0 THEN "false"
         ELSE "trips"

\* What checkVehicleState does once the ignition query has settled: return false,
\* return true (the catch), or go on to the trip query.
afterIgnition(answer) ==
    IF ~answer.ok THEN "true"
    ELSE IF Len(answer.data) > 0 /\ answer.data[Len(answer.data)] # 0 THEN "false"
         ELSE "trips"

\* Mutant: a failed trip query counts as movement.
afterTrips_FailClosed(answer) ==
    IF ~answer.ok THEN FALSE
    ELSE IF Len(answer.data) > 0 THEN FALSE
         ELSE TRUE

\* What checkVehicleState returns once the trip query has settled.
afterTrips(answer) ==
    IF ~answer.ok THEN TRUE
    ELSE IF Len(answer.data) > 0 THEN FALSE
         ELSE TRUE

checkVehicleState(ignitionAnswer, tripAnswer) ==
    LET step == afterIgnition(ignitionAnswer)
    IN  IF step = "trips" THEN afterTrips(tripAnswer) ELSE step = "true"

\* --------------------------------------------------------------- HistoryStore
RECURSIVE shiftOlderThan(_, _)
shiftOlderThan(history, horizon) ==
    IF Len(history) > 0 /\ history[1].timestamp < horizon
    THEN shiftOlderThan(Tail(history), horizon)
    ELSE history

RECURSIVE shiftOver(_, _)
shiftOver(history, cap) ==
    IF Len(history) > cap THEN shiftOver(Tail(history), cap) ELSE history

\* Mutant: only the cap prunes.
pruneHistory_CapOnly(history) == shiftOver(history, MaxHistoryEntries)

pruneHistory(history) ==
    shiftOver(shiftOlderThan(history, now - RetentionMs), MaxHistoryEntries)

\* Array.prototype.sort with (a, b) => a.timestamp - b.timestamp: stable.
RECURSIVE insertByTimestamp(_, _)
insertByTimestamp(sorted, p) ==
    IF Len(sorted) = 0 THEN <<p>>
    ELSE IF sorted[Len(sorted)].timestamp <= p.timestamp THEN Append(sorted, p)
         ELSE Append(insertByTimestamp(SubSeq(sorted, 1, Len(sorted) - 1), p),
                     sorted[Len(sorted)])

RECURSIVE sortByTimestamp(_)
sortByTimestamp(points) ==
    IF Len(points) = 0 THEN <<>>
    ELSE insertByTimestamp(sortByTimestamp(SubSeq(points, 1, Len(points) - 1)),
                           points[Len(points)])

\* ---------------------------------------------------------------- AlertManager
\* Mutant: the cooldown is 5 seconds.
isDuplicate_Seconds(alertData) ==
    LET lastAlertTime == recentAlerts[alertData.vehicleId]
    IN  lastAlertTime # null /\ (now - lastAlertTime) < 5 * MsPerSecond

isDuplicate(alertData) ==
    LET lastAlertTime == recentAlerts[alertData.vehicleId]
    IN  lastAlertTime # null /\ (now - lastAlertTime) < DEDUP_WINDOW_MS

newAlert(alertData) ==
    [id |-> alertIdCounter + 1,
     vehicleId |-> alertData.vehicleId,
     vehicleName |-> alertData.vehicleName,
     severity |-> alertData.severity,
     fuelDrop |-> alertData.fuelDrop,
     previousLevel |-> alertData.previousLevel,
     currentLevel |-> alertData.currentLevel,
     duration |-> alertData.duration,
     timestamp |-> now,
     location |-> IF alertData.location = "" THEN "Unknown" ELSE alertData.location]

\* The value addAlert returns.
addAlertReturns(alertData) == ~isDuplicate(alertData)

\* What saveAlerts writes to localStorage: the 100 newest alerts, as JSON.
saveAlerts(list) ==
    [json |-> SubSeq(list, 1, IF Len(list) < MaxSavedAlerts THEN Len(list)
                                                            ELSE MaxSavedAlerts)]

\* Mutant: the deduplication cache is stamped on every submission.
addAlert_StampsAlways(alertData) ==
    /\ recentAlerts' = [recentAlerts EXCEPT ![alertData.vehicleId] = now]
    /\ IF isDuplicate(alertData)
       THEN UNCHANGED <<alerts, alertIdCounter, storedAlerts>>
       ELSE /\ alertIdCounter' = alertIdCounter + 1
            /\ alerts' = <<newAlert(alertData)>> \o alerts
            /\ storedAlerts' \in {saveAlerts(alerts'), storedAlerts}

\* saveAlerts catches a failing localStorage.setItem: the item then stays as it was.
addAlert(alertData) ==
    IF isDuplicate(alertData)
    THEN UNCHANGED sinkVars
    ELSE /\ alertIdCounter' = alertIdCounter + 1
         /\ alerts' = <<newAlert(alertData)>> \o alerts
         /\ recentAlerts' = [recentAlerts EXCEPT ![alertData.vehicleId] = now]
         /\ storedAlerts' \in {saveAlerts(alerts'), storedAlerts}

\* =========================================================================
\* Harnesses for the pure functions: Init draws the inputs (arg), one action
\* applies the function and stores what it returned (ret).
\* =========================================================================
Pending == [pending |-> TRUE]
NoArg == [none |-> TRUE]

\* localStorage.getItem of a key that holds nothing
NoItem == [none |-> TRUE]

IdleEngine ==
    /\ isMonitoring = FALSE
    /\ pollInterval = null
    /\ feedToken = null
    /\ vehicleCache = <<>>
    /\ fuelHistory = [v \in Vehicles |-> <<>>]
    /\ storedConfig = NoItem
    /\ status = "unset"
    /\ startResult = "none"

IdleSink ==
    /\ alerts = <<>>
    /\ alertIdCounter = 0
    /\ recentAlerts = [v \in Vehicles |-> null]
    /\ storedAlerts = NoItem

FreeTask == [pc |-> "free", sent |-> null, groups |-> <<>>, detection |-> NoDetection]

\* No analyzeHistoricalData invocation.
IdleScan ==
    [pc |-> "idle", vehicles |-> <<>>, index |-> 0, processed |-> 0, totalAlerts |-> 0,
     alertCount |-> 0, queue |-> <<>>, history |-> <<>>, detection |-> NoDetection,
     progress |-> <<>>, errors |-> <<>>]

IdleRuntime ==
    /\ timers = {}
    /\ timerSeq = 0
    /\ starts = 0
    /\ tasks = [t \in 1..MaxTasks |-> FreeTask]
    /\ polls = 0
    /\ scan = IdleScan

NowStart == 43 * MsPerMinute

\* ---- detectSuspiciousDrop
InitDetect ==
    /\ IdleEngine /\ IdleSink /\ IdleRuntime
    /\ now = NowStart
    /\ config \in Configs
    /\ arg \in [history : SeqsUpTo(Readings, MaxHist), currentPoint : Readings]
    /\ ret = Pending

ApplyDetect ==
    /\ ret = Pending
    /\ ret' = detectSuspiciousDrop(arg.history, arg.currentPoint)
    /\ UNCHANGED <<engineVars, sinkVars, runtimeVars, configVars, statusVars, now, arg>>

SpecDetect == InitDetect /\ [][ApplyDetect]_vars

\* ---- determineSeverity
MaxDropPercent == 31
DurationSamples ==
    {0, 5 * MsPerMinute, 10 * MsPerMinute - 1, 10 * MsPerMinute,
     20 * MsPerMinute - 1, 20 * MsPerMinute, 30 * MsPerMinute}

InitSeverity ==
    /\ IdleEngine /\ IdleSink /\ IdleRuntime
    /\ now = NowStart
    /\ config = DefaultConfig
    /\ arg \in [dropPercent : 0..MaxDropPercent, durationMs : DurationSamples]
    /\ ret = Pending

ApplySeverity ==
    /\ ret = Pending
    /\ arg \in [dropPercent : Int, durationMs : Int]
    /\ ret' = [severity |-> determineSeverity(arg.dropPercent, arg.durationMs)]
    /\ UNCHANGED <<engineVars, sinkVars, runtimeVars, configVars, statusVars, now, arg>>

SpecSeverity == InitSeverity /\ [][ApplySeverity]_vars

\* ---- checkVehicleState
InitVerify ==
    /\ IdleEngine /\ IdleSink /\ IdleRuntime
    /\ now = NowStart
    /\ config = DefaultConfig
    /\ arg \in [deviceId : Vehicles, timestamp : Instants,
                ignition : IgnitionAnswers, trips : TripAnswers]
    /\ ret = Pending

ApplyVerify ==
    /\ ret = Pending
    /\ arg \in [deviceId : Vehicles, timestamp : Instants,
                ignition : IgnitionAnswers, trips : TripAnswers]
    /\ ret' = [query |-> verifyQuery(arg.deviceId, arg.timestamp),
               tripsQueried |-> afterIgnition(arg.ignition) = "trips",
               isStationary |-> checkVehicleState(arg.ignition, arg.trips)]
    /\ UNCHANGED <<engineVars, sinkVars, runtimeVars, configVars, statusVars, now, arg>>

SpecVerify == InitVerify /\ [][ApplyVerify]_vars

\* ---- AlertManager.addAlert under a running clock
MaxSubmissions == 4
MaxGateMinutes == 13
GateSteps == {2 * MsPerMinute, 3 * MsPerMinute - 1, 3 * MsPerMinute, 6 * MsPerMinute}

\* The alertData of the test alert of main.js, for either vehicle.
TestAlertData(v) ==
    [vehicleId |-> v, vehicleName |-> "Test Truck #101", severity |-> "high",
     fuelDrop |-> 18, previousLevel |-> 75, currentLevel |-> 57, duration |-> 15,
     location |-> "Test Location"]

InitGate ==
    /\ IdleEngine /\ IdleSink /\ IdleRuntime
    /\ now = NowStart
    /\ config = DefaultConfig
    /\ arg = NoArg
    /\ ret = [n |-> 0, vehicleId |-> "v1", at |-> 0, ok |-> FALSE]

GateClock ==
    /\ \E d \in GateSteps :
          /\ now + d <= NowStart + MaxGateMinutes * MsPerMinute
          /\ now' = now + d
    /\ UNCHANGED <<engineVars, sinkVars, runtimeVars, configVars, statusVars, arg, ret>>

GateSubmit ==
    /\ ret.n < MaxSubmissions
    /\ \E v \in Vehicles :
          /\ addAlert(TestAlertData(v))
          /\ ret' = [n |-> ret.n + 1, vehicleId |-> v, at |-> now,
                     ok |-> addAlertReturns(TestAlertData(v))]
    /\ UNCHANGED <<engineVars, runtimeVars, configVars, statusVars, now, arg>>

SpecGate == InitGate /\ [][GateClock \/ GateSubmit]_vars

\* ---- AlertManager: the list, its counter and the saved item
MaxIssued == 3

\* Math.max(...alerts.map(a => a.id)), or 0 for an empty list
maxId(list) ==
    IF Len(list) = 0 THEN 0
    ELSE LET ids == { list[k].id : k \in 1..Len(list) }
         IN  CHOOSE m \in ids : \A i \in ids : i <= m

\* loadAlerts: a saved item replaces the list, and the counter becomes the largest id
\* of the item; without an item both stay.
loadedAlerts(list, saved) == IF saved = NoItem THEN list ELSE saved.json
loadedCounter(counter, saved) == IF saved = NoItem THEN counter ELSE maxId(saved.json)

\* dismissAlert(alertId): the alert leaves the list, and the list is saved.
dismissAlert(alertId) ==
    /\ alerts' = SelectSeq(alerts, LAMBDA a : a.id # alertId)
    /\ storedAlerts' \in {saveAlerts(alerts'), storedAlerts}
    /\ UNCHANGED <<alertIdCounter, recentAlerts>>

\* clearAlerts: alerts = []; saveAlerts(); loadAlerts().
clearAlerts ==
    /\ storedAlerts' \in {saveAlerts(<<>>), storedAlerts}
    /\ alerts' = loadedAlerts(<<>>, storedAlerts')
    /\ alertIdCounter' = loadedCounter(alertIdCounter, storedAlerts')
    /\ UNCHANGED recentAlerts

\* The page is loaded again: the module starts with an empty list, a counter of 0 and an
\* empty deduplication cache, and AlertManager.init calls loadAlerts.
reloadAlerts ==
    /\ alerts' = loadedAlerts(<<>>, storedAlerts)
    /\ alertIdCounter' = loadedCounter(0, storedAlerts)
    /\ recentAlerts' = [v \in Vehicles |-> null]
    /\ UNCHANGED storedAlerts

\* ret.issued: the ids addAlert has given out, in the order given.
InitSink ==
    /\ IdleEngine /\ IdleSink /\ IdleRuntime
    /\ now = NowStart
    /\ config = DefaultConfig
    /\ arg = NoArg
    /\ ret = [issued |-> <<>>]

\* The cooldown of every vehicle passes.
SinkClock ==
    /\ now + DEDUP_WINDOW_MS <= NowStart + MaxGateMinutes * MsPerMinute
    /\ now' = now + DEDUP_WINDOW_MS
    /\ UNCHANGED <<engineVars, sinkVars, runtimeVars, configVars, statusVars, arg, ret>>

SinkSubmit ==
    /\ Len(ret.issued) < MaxIssued
    /\ \E v \in Vehicles :
          /\ addAlert(TestAlertData(v))
          /\ ret' = IF addAlertReturns(TestAlertData(v))
                    THEN [issued |-> Append(ret.issued, alerts'[1].id)]
                    ELSE ret
    /\ UNCHANGED <<engineVars, runtimeVars, configVars, statusVars, now, arg>>

SinkDismiss ==
    /\ \E k \in 1..Len(alerts) : dismissAlert(alerts[k].id)
    /\ UNCHANGED <<engineVars, runtimeVars, configVars, statusVars, now, arg, ret>>

SinkClear ==
    /\ clearAlerts
    /\ UNCHANGED <<engineVars, runtimeVars, configVars, statusVars, now, arg, ret>>

SinkReload ==
    /\ reloadAlerts
    /\ UNCHANGED <<engineVars, runtimeVars, configVars, statusVars, now, arg, ret>>

NextSink == SinkClock \/ SinkSubmit \/ SinkDismiss \/ SinkClear \/ SinkReload

SpecSink == InitSink /\ [][NextSink]_vars

\* =========================================================================
\* IngestionPoller and DetectionPipeline (continuous mode)
\* =========================================================================
MaxTimers == 2

\* What the telemetry feed may deliver.  The data field, a fraction in the source,
\* is carried in hundredths, so that point.data * 100 is the number itself.
\* The readings: 90% at t0 and at t0+9.5min, 60% at t0+9.5min and at t0+25min.
FeedReadings ==
    { [dateTime |-> 0, data |-> 90],
      [dateTime |-> 9 * MsPerMinute + 30 * MsPerSecond, data |-> 90],
      [dateTime |-> 9 * MsPerMinute + 30 * MsPerSecond, data |-> 60],
      [dateTime |-> 25 * MsPerMinute, data |-> 60] }
FeedPoints ==
    { [device |-> v, dateTime |-> r.dateTime, data |-> r.data] : v \in Vehicles, r \in FeedReadings }
FeedBatches == SeqsUpTo(FeedPoints, MaxBatch)
FeedErrors == [mentionsVersion : BOOLEAN]

\* What the vehicle registry may answer: v2 is a device the registry does not know.
RegistryAnswers == { <<[id |-> "v1", name |-> "Truck 1", serialNumber |-> "G9-0001"]>> }

\* vehicleCache.set(device.id, ...) for each device: a Map keeps insertion order and
\* replaces the value of a key it holds.
RECURSIVE cacheSetAll(_, _)
cacheSetAll(cache, devices) ==
    IF Len(devices) = 0 THEN cache
    ELSE LET d == Head(devices)
             held == \E k \in 1..Len(cache) : cache[k].id = d.id
             next == IF held
                     THEN [k \in 1..Len(cache) |-> IF cache[k].id = d.id THEN d ELSE cache[k]]
                     ELSE Append(cache, d)
         IN  cacheSetAll(next, Tail(devices))

\* Mutant: a device the cache does not hold has no name.
vehicleOf_Nameless(deviceId) ==
    IF \E k \in 1..Len(vehicleCache) : vehicleCache[k].id = deviceId
    THEN LET k == CHOOSE k \in 1..Len(vehicleCache) : vehicleCache[k].id = deviceId
         IN  [id |-> deviceId, name |-> vehicleCache[k].name]
    ELSE [id |-> deviceId, name |-> ""]

\* vehicleCache.get(deviceId) || { name: 'Unknown Vehicle', id: deviceId }
vehicleOf(deviceId) ==
    IF \E k \in 1..Len(vehicleCache) : vehicleCache[k].id = deviceId
    THEN LET k == CHOOSE k \in 1..Len(vehicleCache) : vehicleCache[k].id = deviceId
         IN  [id |-> deviceId, name |-> vehicleCache[k].name]
    ELSE [id |-> deviceId, name |-> "Unknown Vehicle"]

\* processFuelData: the points grouped by device, in order of first appearance.
RECURSIVE groupByDevice(_, _)
groupByDevice(points, byDevice) ==
    IF Len(points) = 0 THEN byDevice
    ELSE LET point == Head(points)
             entry == [timestamp |-> point.dateTime, level |-> point.data]
             held == \E k \in 1..Len(byDevice) : byDevice[k].deviceId = point.device
             next == IF held
                     THEN [k \in 1..Len(byDevice) |->
                             IF byDevice[k].deviceId = point.device
                             THEN [byDevice[k] EXCEPT !.dataPoints = Append(@, entry)]
                             ELSE byDevice[k]]
                     ELSE Append(byDevice, [deviceId |-> point.device, dataPoints |-> <<entry>>])
         IN  groupByDevice(Tail(points), next)

\* The groups as analyzeVehicleFuelData walks them: each sorted by timestamp.  A
\* group belongs to its invocation alone, so sorting it here rather than on entry to
\* analyzeVehicleFuelData is the same.
processFuelData(fuelDataPoints) ==
    LET byDevice == groupByDevice(fuelDataPoints, <<>>)
    IN  [k \in 1..Len(byDevice) |->
            [byDevice[k] EXCEPT !.dataPoints = sortByTimestamp(@)]]

\* The alertData analyzeVehicleFuelData hands to AlertManager.addAlert.
pipelineAlert(deviceId, detection) ==
    [vehicleId |-> deviceId,
     vehicleName |-> vehicleOf(deviceId).name,
     severity |-> determineSeverity(detection.dropPercent, detection.durationMs),
     fuelDrop |-> detection.dropPercent,
     previousLevel |-> detection.previousLevel,
     currentLevel |-> detection.currentLevel,
     duration |-> MathRound(detection.durationMs, MsPerMinute),
     location |-> ""]

\* history.push(currentPoint); pruneHistory(history)
pushAndPrune(fh, deviceId, currentPoint) ==
    [fh EXCEPT ![deviceId] = pruneHistory(Append(@, currentPoint))]

\* The loops of processFuelData and analyzeVehicleFuelData from the head of groups,
\* run until a reading is detected on (the invocation then suspends in
\* checkVehicleState, that reading still at the head) or nothing is left.
RECURSIVE runPipeline(_, _)
runPipeline(fh, groups) ==
    IF Len(groups) = 0 THEN [fh |-> fh, groups |-> <<>>, detection |-> NoDetection]
    ELSE IF Len(groups[1].dataPoints) = 0 THEN runPipeline(fh, Tail(groups))
    ELSE LET deviceId == groups[1].deviceId
             currentPoint == groups[1].dataPoints[1]
             detection == detectSuspiciousDrop(fh[deviceId], currentPoint)
         IN  IF detection # NoDetection
             THEN [fh |-> fh, groups |-> groups, detection |-> detection]
             ELSE runPipeline(pushAndPrune(fh, deviceId, currentPoint),
                              [groups EXCEPT ![1].dataPoints = Tail(@)])

\* The invocation's record once runPipeline has stopped.
suspended(r) ==
    IF r.detection # NoDetection
    THEN [pc |-> "ignition", sent |-> null, groups |-> r.groups, detection |-> r.detection]
    ELSE FreeTask

canPoll == polls < MaxPolls /\ \E t \in 1..MaxTasks : tasks[t].pc = "free"

\* Mutant: fromVersion is never sent.
pollBegin_NoCursor ==
    LET t == CHOOSE t \in 1..MaxTasks :
                 tasks[t].pc = "free" /\ \A u \in 1..(t - 1) : tasks[u].pc # "free"
    IN  [tasks EXCEPT ![t] = [pc |-> "fetch", sent |-> null, groups |-> <<>>,
                              detection |-> NoDetection]]

\* pollForFuelData up to its await of GetFeed: fromVersion is sent when feedToken is
\* truthy and omitted (null) otherwise.
pollBegin ==
    LET t == CHOOSE t \in 1..MaxTasks :
                 tasks[t].pc = "free" /\ \A u \in 1..(t - 1) : tasks[u].pc # "free"
    IN  [tasks EXCEPT ![t] = [pc |-> "fetch",
                              sent |-> IF feedToken # null THEN feedToken ELSE null,
                              groups |-> <<>>,
                              detection |-> NoDetection]]

\* Mutant: any error resets the token.
tokenAfterError_AnyError(error) == null

\* The catch of pollForFuelData.
tokenAfterError(error) == IF error.mentionsVersion THEN null ELSE feedToken

\* ---- startMonitoring, stopMonitoring
\* Mutant: startMonitoring does not look at isMonitoring.
StartMonitoringUpTo_Unguarded(n) ==
    /\ starts < n
    /\ starts' = starts + 1
    /\ UNCHANGED <<engineVars, sinkVars, configVars, statusVars, now, timers, timerSeq, tasks,
                   polls, scan, arg, ret>>

\* startMonitoring up to its await of loadVehicles, with at most n calls awaiting it.
StartMonitoringUpTo(n) ==
    /\ starts < n
    /\ IF isMonitoring THEN UNCHANGED starts ELSE starts' = starts + 1
    /\ UNCHANGED <<engineVars, sinkVars, configVars, statusVars, now, timers, timerSeq, tasks, polls, scan, arg, ret>>

StartMonitoring == StartMonitoringUpTo(MaxStarts)

LoadVehiclesOk ==
    /\ starts > 0
    /\ canPoll
    /\ timerSeq < MaxTimers
    /\ \E devices \in RegistryAnswers : vehicleCache' = cacheSetAll(vehicleCache, devices)
    /\ isMonitoring' = TRUE
    /\ tasks' = pollBegin
    /\ polls' = polls + 1
    /\ timerSeq' = timerSeq + 1
    /\ timers' = timers \cup {[id |-> timerSeq + 1,
                               periodMs |-> config.pollIntervalSeconds * MsPerSecond]}
    /\ pollInterval' = timerSeq + 1
    /\ starts' = starts - 1
    /\ status' = "active"
    /\ startResult' = "resolved"
    /\ UNCHANGED <<feedToken, fuelHistory, sinkVars, configVars, now, scan, arg, ret>>

\* Mutant: the catch of startMonitoring goes on to monitor.
LoadVehiclesFail_StartsAnyway ==
    /\ starts > 0
    /\ starts' = starts - 1
    /\ status' = "error"
    /\ startResult' = "resolved"
    /\ isMonitoring' = TRUE
    /\ UNCHANGED <<pollInterval, feedToken, vehicleCache, fuelHistory, sinkVars, configVars,
                   now, timers, timerSeq, tasks, polls, scan, arg, ret>>

\* loadVehicles rethrows the rejected call; the catch of startMonitoring shows it on
\* the status indicator and returns.
LoadVehiclesFail ==
    /\ starts > 0
    /\ starts' = starts - 1
    /\ status' = "error"
    /\ startResult' = "resolved"
    /\ UNCHANGED <<engineVars, sinkVars, configVars, now, timers, timerSeq, tasks, polls, scan, arg, ret>>

stopMonitoring ==
    /\ timers' = IF pollInterval # null
                 THEN { tm \in timers : tm.id # pollInterval }
                 ELSE timers
    /\ pollInterval' = null
    /\ isMonitoring' = FALSE
    /\ status' = "inactive"
    /\ UNCHANGED startResult
    /\ UNCHANGED <<feedToken, vehicleCache, fuelHistory, sinkVars, configVars, now,
                   timerSeq, starts, tasks, polls, scan, arg>>

StopMonitoring == stopMonitoring /\ UNCHANGED ret

\* ---- a tick of the interval timer: pollForFuelData is called
TimerFire ==
    /\ timers # {}
    /\ canPoll
    /\ tasks' = pollBegin
    /\ polls' = polls + 1
    /\ UNCHANGED <<engineVars, sinkVars, configVars, statusVars, now, timers, timerSeq, starts, scan, arg, ret>>

\* ---- GetFeed settles
\* feedToken = result.toVersion, then processFuelData(result.data) if there is any.
FetchOkWith(t, toVersion, data) ==
    /\ tasks[t].pc = "fetch"
    /\ LET r == runPipeline(fuelHistory,
                            IF Len(data) > 0 THEN processFuelData(data) ELSE <<>>)
       IN  /\ feedToken' = toVersion
           /\ fuelHistory' = r.fh
           /\ tasks' = [tasks EXCEPT ![t] = suspended(r)]
    /\ UNCHANGED <<isMonitoring, pollInterval, vehicleCache, sinkVars, configVars, statusVars, now,
                   timers, timerSeq, starts, polls, scan, arg, ret>>

FetchOk(t) ==
    \E toVersion \in 1..MaxVersion, data \in FeedBatches : FetchOkWith(t, toVersion, data)

FetchFailWith(t, error) ==
    /\ tasks[t].pc = "fetch"
    /\ feedToken' = tokenAfterError(error)
    /\ tasks' = [tasks EXCEPT ![t] = FreeTask]
    /\ UNCHANGED <<isMonitoring, pollInterval, vehicleCache, fuelHistory, sinkVars, configVars, statusVars,
                   now, timers, timerSeq, starts, polls, scan, arg, ret>>

FetchFail(t) == \E error \in FeedErrors : FetchFailWith(t, error)

\* ---- checkVehicleState returns isStationary to analyzeVehicleFuelData, which
\* alerts if it is true, stores the reading and goes on
\* Mutant: a reading whose drop was not confirmed is not stored.
resume_DropsRejected(t, isStationary) ==
    LET deviceId == tasks[t].groups[1].deviceId
        currentPoint == tasks[t].groups[1].dataPoints[1]
        r == runPipeline(IF isStationary
                         THEN pushAndPrune(fuelHistory, deviceId, currentPoint)
                         ELSE fuelHistory,
                         [tasks[t].groups EXCEPT ![1].dataPoints = Tail(@)])
    IN  /\ IF isStationary
           THEN addAlert(pipelineAlert(deviceId, tasks[t].detection))
           ELSE UNCHANGED sinkVars
        /\ fuelHistory' = r.fh
        /\ tasks' = [tasks EXCEPT ![t] = suspended(r)]

\* Mutant: the alert is raised whatever checkVehicleState returned.
resume_Ungated(t, isStationary) ==
    LET deviceId == tasks[t].groups[1].deviceId
        currentPoint == tasks[t].groups[1].dataPoints[1]
        r == runPipeline(pushAndPrune(fuelHistory, deviceId, currentPoint),
                         [tasks[t].groups EXCEPT ![1].dataPoints = Tail(@)])
    IN  /\ addAlert(pipelineAlert(deviceId, tasks[t].detection))
        /\ fuelHistory' = r.fh
        /\ tasks' = [tasks EXCEPT ![t] = suspended(r)]

resume(t, isStationary) ==
    LET deviceId == tasks[t].groups[1].deviceId
        currentPoint == tasks[t].groups[1].dataPoints[1]
        r == runPipeline(pushAndPrune(fuelHistory, deviceId, currentPoint),
                         [tasks[t].groups EXCEPT ![1].dataPoints = Tail(@)])
    IN  /\ IF isStationary
           THEN addAlert(pipelineAlert(deviceId, tasks[t].detection))
           ELSE UNCHANGED sinkVars
        /\ fuelHistory' = r.fh
        /\ tasks' = [tasks EXCEPT ![t] = suspended(r)]

IgnitionAnswerWith(t, answer) ==
    /\ tasks[t].pc = "ignition"
    /\ IF afterIgnition(answer) = "trips"
       THEN /\ tasks' = [tasks EXCEPT ![t].pc = "trips"]
            /\ UNCHANGED <<fuelHistory, sinkVars>>
       ELSE resume(t, afterIgnition(answer) = "true")
    /\ UNCHANGED <<isMonitoring, pollInterval, feedToken, vehicleCache, configVars, statusVars, now,
                   timers, timerSeq, starts, polls, scan, arg, ret>>

IgnitionAnswer(t) == \E answer \in IgnitionAnswers : IgnitionAnswerWith(t, answer)

TripsAnswerWith(t, answer) ==
    /\ tasks[t].pc = "trips"
    /\ resume(t, afterTrips(answer))
    /\ UNCHANGED <<isMonitoring, pollInterval, feedToken, vehicleCache, configVars, statusVars, now,
                   timers, timerSeq, starts, polls, scan, arg, ret>>

TripsAnswer(t) == \E answer \in TripAnswers : TripsAnswerWith(t, answer)

Init ==
    /\ IdleEngine /\ IdleSink /\ IdleRuntime
    /\ now = NowStart
    /\ config = DefaultConfig
    /\ arg = NoArg
    /\ ret = Pending

Next ==
    \/ StartMonitoring
    \/ LoadVehiclesOk
    \/ LoadVehiclesFail
    \/ StopMonitoring
    \/ TimerFire
    \/ \E t \in 1..MaxTasks : FetchOk(t)
    \/ \E t \in 1..MaxTasks : FetchFail(t)
    \/ \E t \in 1..MaxTasks : IgnitionAnswer(t)
    \/ \E t \in 1..MaxTasks : TripsAnswer(t)

Spec == Init /\ [][Next]_vars


\* ---- determineSeverity on sampled inputs and in the pipeline
InitClassify == InitSeverity \/ Init

NextClassify == ApplySeverity \/ (arg = NoArg /\ Next)

SpecClassify == InitClassify /\ [][NextClassify]_vars

\* ---- the pipeline passes of a monitor that is started once and never stopped, and
\* whose registry and feed do not fail: the steps left out (stopMonitoring, the two
\* catches) leave fuelHistory, the alerts and the passes in flight alone.
NextPass ==
    \/ StartMonitoring
    \/ LoadVehiclesOk
    \/ TimerFire
    \/ \E t \in 1..MaxTasks : FetchOk(t)
    \/ \E t \in 1..MaxTasks : IgnitionAnswer(t)
    \/ \E t \in 1..MaxTasks : TripsAnswer(t)

SpecPass == Init /\ [][NextPass]_vars

\* ---- the poller on a feed that keeps its promise: a GetFeed with fromVersion c
\* answers with the readings published after c and with the version of the last of them
MaxFeedTicks == 4

\* The readings of v1 the feed publishes, in order; version k stands for the first k.
FeedStream ==
    << [device |-> "v1", dateTime |-> 0, data |-> 90],
       [device |-> "v1", dateTime |-> 9 * MsPerMinute + 30 * MsPerSecond, data |-> 88],
       [device |-> "v1", dateTime |-> 25 * MsPerMinute, data |-> 86],
       [device |-> "v1", dateTime |-> 40 * MsPerMinute, data |-> 84] >>

\* The engine is monitoring, and its first poll has delivered the first reading.
InitFeed ==
    /\ isMonitoring = TRUE
    /\ pollInterval = 1
    /\ feedToken = 1
    /\ \E devices \in RegistryAnswers : vehicleCache = cacheSetAll(<<>>, devices)
    /\ fuelHistory = [v \in Vehicles |->
                        IF v = "v1" THEN <<[timestamp |-> 0, level |-> 90]>> ELSE <<>>]
    /\ storedConfig = NoItem
    /\ status = "active"
    /\ startResult = "resolved"
    /\ IdleSink
    /\ timers = {[id |-> 1, periodMs |-> DefaultConfig.pollIntervalSeconds * MsPerSecond]}
    /\ timerSeq = 1
    /\ starts = 0
    /\ tasks = [t \in 1..MaxTasks |-> FreeTask]
    /\ polls = 0
    /\ scan = IdleScan
    /\ now = NowStart
    /\ config = DefaultConfig
    /\ arg = NoArg
    /\ ret = Pending

\* The timer calls pollForFuelData, whatever is in flight.
FeedTick ==
    /\ timers # {}
    /\ polls < MaxFeedTicks
    /\ \E t \in 1..MaxTasks : tasks[t].pc = "free"
    /\ tasks' = pollBegin
    /\ polls' = polls + 1
    /\ UNCHANGED <<engineVars, sinkVars, configVars, statusVars, now, timers, timerSeq, starts,
                   scan, arg, ret>>

\* The timer calls pollForFuelData only when no call is in flight.
FeedTickSerial ==
    /\ \A t \in 1..MaxTasks : tasks[t].pc = "free"
    /\ FeedTick

\* The GetFeed of invocation t is answered: the readings after the version it sent, up
\* to a version the feed had reached when it answered.
FeedAnswer(t) ==
    /\ tasks[t].pc = "fetch"
    /\ \E toVersion \in tasks[t].sent..Len(FeedStream) :
          FetchOkWith(t, toVersion, SubSeq(FeedStream, tasks[t].sent + 1, toVersion))

NextFeed == FeedTick \/ \E t \in 1..MaxTasks : FeedAnswer(t)
SpecFeed == InitFeed /\ [][NextFeed]_vars

NextFeedSerial == FeedTickSerial \/ \E t \in 1..MaxTasks : FeedAnswer(t)
SpecFeedSerial == InitFeed /\ [][NextFeedSerial]_vars

\* ---- checkVehicleState on sampled answers and in the pipeline
InitFailOpen == InitVerify \/ Init

NextFailOpen == ApplyVerify \/ (arg = NoArg /\ NextPass)

SpecFailOpen == InitFailOpen /\ [][NextFailOpen]_vars

\* =========================================================================
\* HistoricalBatchAnalyzer: analyzeHistoricalData and analyzeVehicleHistory
\* =========================================================================
MaxScanBatch == 3

\* What the range query for fuel levels may return: 90% at t0, 60% at t0+9.5min and
\* at t0+25min, 20% at t0+80min, 0% at t0+89min.
ScanReadings ==
    { [dateTime |-> 0, data |-> 90],
      [dateTime |-> 9 * MsPerMinute + 30 * MsPerSecond, data |-> 60],
      [dateTime |-> 25 * MsPerMinute, data |-> 60],
      [dateTime |-> 80 * MsPerMinute, data |-> 20],
      [dateTime |-> 89 * MsPerMinute, data |-> 0] }
ScanBatches == SeqsUpTo(ScanReadings, MaxScanBatch)

\* What the device query of a run may return: two vehicles, or none.
ScanRegistry ==
    { <<[id |-> "v1", name |-> "Truck 1", serialNumber |-> "G9-0001"],
        [id |-> "v2", name |-> "Truck 2", serialNumber |-> "G9-0002"]>>,
      <<>> }

\* The registry cache a run may find: empty, or as an earlier startMonitoring left it.
ScanCaches == {<<>>} \cup RegistryAnswers

\* The fromDate and toDate of a run.
ScanArgs == [fromDate : {0}, toDate : {89 * MsPerMinute}]

\* { timestamp: new Date(point.dateTime), level: point.data * 100 }
scanPoint(point) == [timestamp |-> point.dateTime, level |-> point.data]

\* The prune loop of analyzeVehicleHistory: entries more than twice the time window
\* older than currentPoint are shifted from the head.
RECURSIVE scanPrune_Horizon(_, _)
scanPrune_Horizon(history, currentPoint) ==
    IF /\ Len(history) > 0
       /\ currentPoint.timestamp - history[1].timestamp > RetentionMs
    THEN scanPrune_Horizon(Tail(history), currentPoint)
    ELSE history

\* Mutant: entries more than half the time window older than currentPoint are shifted.
RECURSIVE scanPrune_Tight(_, _)
scanPrune_Tight(history, currentPoint) ==
    IF /\ Len(history) > 0
       /\ 2 * (currentPoint.timestamp - history[1].timestamp)
             > config.timeWindowMinutes * MsPerMinute
    THEN scanPrune_Tight(Tail(history), currentPoint)
    ELSE history

RECURSIVE scanPrune(_, _)
scanPrune(history, currentPoint) ==
    IF /\ Len(history) > 0
       /\ currentPoint.timestamp - history[1].timestamp
             > config.timeWindowMinutes * 2 * MsPerMinute
    THEN scanPrune(Tail(history), currentPoint)
    ELSE history

\* The for loop of analyzeVehicleHistory from the head of queue, run until a reading
\* is detected on (the run then suspends in checkVehicleState, that reading still at
\* the head) or nothing is left.
RECURSIVE replay(_, _)
replay(history, queue) ==
    IF Len(queue) = 0 THEN [history |-> history, queue |-> <<>>, detection |-> NoDetection]
    ELSE LET currentPoint == queue[1]
             detection == detectSuspiciousDrop(history, currentPoint)
         IN  IF detection # NoDetection
             THEN [history |-> history, queue |-> queue, detection |-> detection]
             ELSE replay(scanPrune(Append(history, currentPoint), currentPoint), Tail(queue))

\* The detections of the whole for loop of analyzeVehicleHistory, each with the reading
\* it was made on: the loop goes on after a detection whatever checkVehicleState says.
RECURSIVE dropEvents(_, _)
dropEvents(history, queue) ==
    LET r == replay(history, queue)
    IN  IF r.detection = NoDetection THEN <<>>
        ELSE <<[reading |-> r.queue[1], event |-> r.detection]>>
                \o dropEvents(scanPrune(Append(r.history, r.queue[1]), r.queue[1]),
                              Tail(r.queue))

\* The alertData analyzeVehicleHistory hands to AlertManager.addAlert.
scanAlert(vehicle, detection, currentPoint) ==
    [vehicleId |-> vehicle.id,
     vehicleName |-> vehicle.name,
     severity |-> determineSeverity(detection.dropPercent, detection.durationMs),
     fuelDrop |-> detection.dropPercent,
     previousLevel |-> detection.previousLevel,
     currentLevel |-> detection.currentLevel,
     duration |-> MathRound(detection.durationMs, MsPerMinute),
     timestamp |-> currentPoint.timestamp,
     isHistorical |-> TRUE,
     location |-> ""]

\* analyzeHistoricalData from the vehicle at index on: the next vehicle's range query
\* is awaited, or, none being left, the closing progress call is made and the total
\* returned.
scanFrom(sc, index) ==
    IF index <= Len(sc.vehicles)
    THEN [sc EXCEPT !.pc = "fetch", !.index = index, !.alertCount = 0, !.queue = <<>>,
                    !.history = <<>>, !.detection = NoDetection]
    ELSE [sc EXCEPT !.pc = "done", !.index = index, !.alertCount = 0, !.queue = <<>>,
                    !.history = <<>>, !.detection = NoDetection,
                    !.progress = Append(@, 100)]

\* analyzeHistoricalData once the registry is in the cache: the vehicles are listed,
\* the opening progress call is made and the loop entered.
scanVehicles(cache) ==
    scanFrom([IdleScan EXCEPT !.vehicles = cache, !.progress = <<0>>], 1)

\* analyzeVehicleHistory has returned alertCount for the vehicle at sc.index.
scanVehicleDone(sc, alertCount) ==
    LET processed == sc.processed + 1
    IN  scanFrom([sc EXCEPT !.totalAlerts = @ + alertCount,
                            !.processed = processed,
                            !.progress = Append(@, MathRound(processed * 100, Len(sc.vehicles)))],
                 sc.index + 1)

\* The scan record once replay has stopped.
scanSuspended(sc, r, alertCount) ==
    IF r.detection # NoDetection
    THEN [sc EXCEPT !.pc = "ignition", !.alertCount = alertCount, !.queue = r.queue,
                    !.history = r.history, !.detection = r.detection]
    ELSE scanVehicleDone(sc, alertCount)

\* What the caller of analyzeHistoricalData has got.
scanOutcome(sc) ==
    IF sc.pc = "done" THEN [returned |-> sc.totalAlerts]
    ELSE IF sc.pc = "failed" THEN [thrown |-> TRUE]
         ELSE Pending

\* analyzeHistoricalData awaits loadVehicles whatever the cache holds.
ScanBegin_AlwaysLoads ==
    /\ scan.pc = "idle"
    /\ arg \in ScanArgs
    /\ scan' = [IdleScan EXCEPT !.pc = "registry"]
    /\ ret' = scanOutcome(scan')
    /\ UNCHANGED <<engineVars, sinkVars, configVars, statusVars, now, timers, timerSeq, starts,
                   tasks, polls, arg>>

ScanBegin ==
    /\ scan.pc = "idle"
    /\ arg \in ScanArgs
    /\ scan' = IF Len(vehicleCache) = 0
               THEN [IdleScan EXCEPT !.pc = "registry"]
               ELSE scanVehicles(vehicleCache)
    /\ ret' = scanOutcome(scan')
    /\ UNCHANGED <<engineVars, sinkVars, configVars, statusVars, now, timers, timerSeq, starts,
                   tasks, polls, arg>>

ScanRegistryOk ==
    /\ scan.pc = "registry"
    /\ \E devices \in ScanRegistry : vehicleCache' = cacheSetAll(vehicleCache, devices)
    /\ scan' = scanVehicles(vehicleCache')
    /\ ret' = scanOutcome(scan')
    /\ UNCHANGED <<isMonitoring, pollInterval, feedToken, fuelHistory, sinkVars, configVars,
                   statusVars, now, timers, timerSeq, starts, tasks, polls, arg>>

ScanRegistryFail ==
    /\ scan.pc = "registry"
    /\ scan' = [scan EXCEPT !.pc = "failed"]
    /\ ret' = scanOutcome(scan')
    /\ UNCHANGED <<engineVars, sinkVars, configVars, statusVars, now, timers, timerSeq, starts,
                   tasks, polls, arg>>

ScanFetchOkWith(fuelData) ==
    /\ scan.pc = "fetch"
    /\ scan' = IF Len(fuelData) < 2
               THEN scanVehicleDone(scan, 0)
               ELSE scanSuspended(scan,
                                  replay(<<>>, sortByTimestamp([k \in 1..Len(fuelData) |->
                                                                  scanPoint(fuelData[k])])),
                                  0)
    /\ ret' = scanOutcome(scan')
    /\ UNCHANGED <<engineVars, sinkVars, configVars, statusVars, now, timers, timerSeq, starts,
                   tasks, polls, arg>>

ScanFetchOk == \E fuelData \in ScanBatches : ScanFetchOkWith(fuelData)

\* The range query throws and the error reaches the caller of analyzeHistoricalData.
ScanFetchFail_FailsBatch ==
    /\ scan.pc = "fetch"
    /\ scan' = [scan EXCEPT !.pc = "failed", !.errors = Append(@, scan.index)]
    /\ ret' = scanOutcome(scan')
    /\ UNCHANGED <<engineVars, sinkVars, configVars, statusVars, now, timers, timerSeq, starts,
                   tasks, polls, arg>>

\* The catch of analyzeVehicleHistory resets the feed cursor as that of pollForFuelData does.
ScanFetchFail_ResetsCursor ==
    /\ scan.pc = "fetch"
    /\ scan' = scanVehicleDone([scan EXCEPT !.errors = Append(@, scan.index)], 0)
    /\ ret' = scanOutcome(scan')
    /\ feedToken' = null
    /\ UNCHANGED <<isMonitoring, pollInterval, vehicleCache, fuelHistory, sinkVars, configVars,
                   statusVars, now, timers, timerSeq, starts, tasks, polls, arg>>

\* The range query throws: analyzeVehicleHistory logs the error against the vehicle and
\* returns its count, 0.
ScanFetchFail ==
    /\ scan.pc = "fetch"
    /\ scan' = scanVehicleDone([scan EXCEPT !.errors = Append(@, scan.index)], 0)
    /\ ret' = scanOutcome(scan')
    /\ UNCHANGED <<engineVars, sinkVars, configVars, statusVars, now, timers, timerSeq, starts,
                   tasks, polls, arg>>

\* checkVehicleState returns isStationary to analyzeVehicleHistory, which alerts and
\* counts if it is true, stores the reading, prunes and goes on.
scanResume(isStationary) ==
    LET currentPoint == scan.queue[1]
        alertCount == IF isStationary THEN scan.alertCount + 1 ELSE scan.alertCount
        r == replay(scanPrune(Append(scan.history, currentPoint), currentPoint),
                    Tail(scan.queue))
    IN  /\ IF isStationary
           THEN addAlert(scanAlert(scan.vehicles[scan.index], scan.detection, currentPoint))
           ELSE UNCHANGED sinkVars
        /\ scan' = scanSuspended(scan, r, alertCount)
        /\ ret' = scanOutcome(scan')

ScanIgnitionAnswerWith(answer) ==
    /\ scan.pc = "ignition"
    /\ IF afterIgnition(answer) = "trips"
       THEN /\ scan' = [scan EXCEPT !.pc = "trips"]
            /\ UNCHANGED <<sinkVars, ret>>
       ELSE scanResume(afterIgnition(answer) = "true")
    /\ UNCHANGED <<engineVars, configVars, statusVars, now, timers, timerSeq, starts,
                   tasks, polls, arg>>

ScanIgnitionAnswer == \E answer \in IgnitionAnswers : ScanIgnitionAnswerWith(answer)

ScanTripsAnswerWith(answer) ==
    /\ scan.pc = "trips"
    /\ scanResume(afterTrips(answer))
    /\ UNCHANGED <<engineVars, configVars, statusVars, now, timers, timerSeq, starts,
                   tasks, polls, arg>>

ScanTripsAnswer == \E answer \in TripAnswers : ScanTripsAnswerWith(answer)

\* A run from a fresh engine, or from one whose registry cache is loaded.
InitScan ==
    /\ isMonitoring = FALSE
    /\ pollInterval = null
    /\ feedToken = null
    /\ vehicleCache \in ScanCaches
    /\ fuelHistory = [v \in Vehicles |-> <<>>]
    /\ storedConfig = NoItem
    /\ status = "unset"
    /\ startResult = "none"
    /\ IdleSink /\ IdleRuntime
    /\ now = NowStart
    /\ config = DefaultConfig
    /\ arg \in ScanArgs
    /\ ret = Pending

NextScan ==
    \/ ScanBegin
    \/ ScanRegistryOk
    \/ ScanRegistryFail
    \/ ScanFetchOk
    \/ ScanFetchFail
    \/ ScanIgnitionAnswer
    \/ ScanTripsAnswer

SpecScan == InitScan /\ [][NextScan]_vars

\* ---- the replay of analyzeVehicleHistory as a function of the readings fetched
MaxReplay == 3

InitReplay ==
    /\ IdleEngine /\ IdleSink /\ IdleRuntime
    /\ now = NowStart
    /\ config \in Configs
    /\ arg \in [readings : SeqsUpTo(Readings, MaxReplay)]
    /\ ret = Pending

ApplyReplay ==
    /\ ret = Pending
    /\ Len(arg.readings) >= 2
    /\ ret' = [events |-> dropEvents(<<>>, sortByTimestamp(arg.readings))]
    /\ UNCHANGED <<engineVars, sinkVars, runtimeVars, configVars, statusVars, now, arg>>

SpecReplay == InitReplay /\ [][ApplyReplay]_vars

\* A run every external call of which is answered, with a result or with an error: the
\* run is one async function, resumed whenever the call it awaits settles.
SpecScanFair == SpecScan /\ WF_vars(NextScan)

\* The pipeline in both modes: a continuous pass, or a historical run.
InitGating == Init \/ InitScan
NextGating == (arg = NoArg /\ NextPass) \/ (arg \in ScanArgs /\ NextScan)
SpecGating == InitGating /\ [][NextGating]_vars

\* A historical run while the engine monitors: the poller's ticks deliver two readings
\* of v1 that give no drop, and interleave with the steps of the run.
LiveBatch ==
    << [device |-> "v1", dateTime |-> 0, data |-> 90],
       [device |-> "v1", dateTime |-> 9 * MsPerMinute + 30 * MsPerSecond, data |-> 90] >>

NextAlongside ==
    \/ StartMonitoring
    \/ LoadVehiclesOk
    \/ StopMonitoring
    \/ TimerFire
    \/ \E t \in 1..MaxTasks : FetchOkWith(t, 1, LiveBatch)
    \/ NextScan

SpecAlongside == InitScan /\ [][NextAlongside]_vars

\* =========================================================================
\* The configuration: loadConfig, saveConfig, updateConfig, and saveSettings of the
\* settings dialog
\* =========================================================================
\* { ...base, ...over }
spread(base, over) ==
    [k \in (DOMAIN base) \cup (DOMAIN over) |-> IF k \in DOMAIN over THEN over[k] ELSE base[k]]

\* An item of localStorage that JSON.parse throws on.
Malformed == [text |-> "{dropThreshold"]

\* JSON.stringify(value) as an item; JSON.parse gives value back.  The values here are
\* objects with integer fields.
jsonItem(value) == [json |-> value]

\* An object without fields; spreading a number, true or null adds nothing either.
EmptyObject == [k \in {} |-> 0]

\* What fuelMonitorConfig may hold when the add-in is loaded: nothing, text that is not
\* JSON, nothing to spread, a config written by saveConfig, a single field, and
\* objects with a field out of its range.
ConfigBlobs ==
    { NoItem,
      Malformed,
      jsonItem(EmptyObject),
      jsonItem([dropThreshold |-> 15, timeWindowMinutes |-> 60, pollIntervalSeconds |-> 60]),
      jsonItem([dropThreshold |-> 20]),
      jsonItem([dropThreshold |-> 0, timeWindowMinutes |-> 30, pollIntervalSeconds |-> 30]),
      jsonItem([pollIntervalSeconds |-> 5]) }

\* loadConfig called with cfg in config and saved in the store: the config after it.
loadConfig(cfg, saved) ==
    IF saved = NoItem THEN cfg
    ELSE IF saved = Malformed THEN cfg
         ELSE spread(cfg, saved.json)

\* saveConfig: the item afterwards, written or, setItem having thrown, as it was.
saveConfig(cfg, saved) == { jsonItem(cfg), saved }

\* newConfig.pollIntervalSeconds is truthy.
hasInterval(newConfig) ==
    /\ "pollIntervalSeconds" \in DOMAIN newConfig
    /\ newConfig.pollIntervalSeconds # 0

\* The timer ids updateConfig may go up to.
MaxRearmed == 3

updateConfig(newConfig) ==
    /\ config' = spread(config, newConfig)
    /\ storedConfig' \in saveConfig(config', storedConfig)
    /\ IF isMonitoring /\ hasInterval(newConfig)
       THEN /\ timerSeq < MaxRearmed
            /\ timerSeq' = timerSeq + 1
            /\ timers' = { tm \in timers : tm.id # pollInterval }
                            \cup {[id |-> timerSeq + 1,
                                   periodMs |-> config'.pollIntervalSeconds * MsPerSecond]}
            /\ pollInterval' = timerSeq + 1
       ELSE UNCHANGED <<pollInterval, timers, timerSeq>>
    /\ UNCHANGED <<isMonitoring, feedToken, vehicleCache, fuelHistory, statusVars, sinkVars,
                   now, starts, tasks, polls, scan, arg, ret>>

\* What parseInt gives for the text of an input field: NaN or an integer.
NaN == [nan |-> TRUE]
number(n) == [number |-> n]
isNaN(x) == x = NaN

ThresholdInputs == {NaN} \cup { number(n) : n \in {0, 1, 50, 51} }
TimeWindowInputs == {NaN} \cup { number(n) : n \in {4, 5, 120, 121} }
PollIntervalInputs == {NaN} \cup { number(n) : n \in {9, 10, 300, 301} }

\* The three checks of saveSettings all pass.
settingsValid(threshold, timeWindow, pollIntervalInput) ==
    /\ ~(isNaN(threshold) \/ threshold.number < 1 \/ threshold.number > 50)
    /\ ~(isNaN(timeWindow) \/ timeWindow.number < 5 \/ timeWindow.number > 120)
    /\ ~(isNaN(pollIntervalInput) \/ pollIntervalInput.number < 10
            \/ pollIntervalInput.number > 300)

SaveSettingsWith(threshold, timeWindow, pollIntervalInput) ==
    IF settingsValid(threshold, timeWindow, pollIntervalInput)
    THEN updateConfig([dropThreshold |-> threshold.number,
                       timeWindowMinutes |-> timeWindow.number,
                       pollIntervalSeconds |-> pollIntervalInput.number])
    ELSE UNCHANGED vars

SaveSettings ==
    \E threshold \in ThresholdInputs, timeWindow \in TimeWindowInputs,
       pollIntervalInput \in PollIntervalInputs :
        SaveSettingsWith(threshold, timeWindow, pollIntervalInput)

\* ---- the add-in under its controls: init with whatever the store holds, then
\* start (focus), stop, the settings dialog, the timer and the feed, which delivers
\* nothing or fails
MaxRacingStarts == 2

InitControl ==
    /\ isMonitoring = FALSE
    /\ pollInterval = null
    /\ feedToken = null
    /\ vehicleCache = <<>>
    /\ fuelHistory = [v \in Vehicles |-> <<>>]
    /\ storedConfig \in ConfigBlobs
    /\ config = loadConfig(DefaultConfig, storedConfig)
    /\ status = "unset"
    /\ startResult = "none"
    /\ IdleSink /\ IdleRuntime
    /\ now = NowStart
    /\ arg = NoArg
    /\ ret = Pending

NextControl ==
    \/ StartMonitoringUpTo(MaxRacingStarts)
    \/ LoadVehiclesOk
    \/ LoadVehiclesFail
    \/ StopMonitoring
    \/ SaveSettings
    \/ TimerFire
    \/ \E t \in 1..MaxTasks : FetchOkWith(t, 1, <<>>)
    \/ \E t \in 1..MaxTasks : FetchFail(t)

SpecControl == InitControl /\ [][NextControl]_vars

\* ---- the engine under a host that calls updateConfig itself: objects with one field
\* or all three, in range and out of it
ApiConfigs ==
    { [dropThreshold |-> 20],
      [dropThreshold |-> 0],
      [timeWindowMinutes |-> 121],
      [pollIntervalSeconds |-> 60],
      [pollIntervalSeconds |-> 301],
      [dropThreshold |-> 51, timeWindowMinutes |-> 4, pollIntervalSeconds |-> 9] }

UpdateConfigCall == \E newConfig \in ApiConfigs : updateConfig(newConfig)

NextApi ==
    \/ StartMonitoring
    \/ LoadVehiclesOk
    \/ StopMonitoring
    \/ UpdateConfigCall
    \/ TimerFire
    \/ \E t \in 1..MaxTasks : FetchOkWith(t, 1, <<>>)

SpecApi == Init /\ [][NextApi]_vars

\* ---- the pipeline in both modes while the settings are tightened: a drop detected
\* under the default config may be alerted on under one it would not pass
TighterConfig == [dropThreshold |-> 40, timeWindowMinutes |-> 5]

Retune == updateConfig(TighterConfig)

NextTuned == NextGating \/ Retune

SpecTuned == InitGating /\ [][NextTuned]_vars

\* ---- the engine under a host that does not call startMonitoring once it has called
\* stopMonitoring; ret records that stopMonitoring has returned.
Stopped == [stopped |-> TRUE]

StopCall == stopMonitoring /\ ret' = Stopped

NextStop ==
    \/ (ret # Stopped /\ StartMonitoring)
    \/ LoadVehiclesOk
    \/ LoadVehiclesFail
    \/ StopCall
    \/ UpdateConfigCall
    \/ TimerFire
    \/ \E t \in 1..MaxTasks : FetchOkWith(t, 1, <<>>)

SpecStop == Init /\ [][NextStop]_vars

\* ---- one vehicle's window under a long run of single readings: analyzeVehicleFuelData
\* called with one reading at a time, lines 222-223 appending and pruning
WindowAppends == 600

\* How the run is stamped and clocked.  "live": readings one minute apart, each
\* appended at the instant it is stamped with.  "ahead": the same readings, all
\* appended while the clock stands at the first one's instant.  "backwards": the
\* readings arrive newest first, the clock standing at the oldest one's instant.
\* "late": appended one minute apart as in "live", but every second reading is one
\* the device held back, stamped three hours before it arrives.
WindowRuns == {"live", "ahead", "backwards", "late", "stale", "dense"}

\* The runs during which Date.now() moves on.
ClockedRuns == {"live", "late", "stale"}

\* The instant at which the k-th reading of a clocked run is appended.
windowInstant(k) == NowStart + (k - 1) * MsPerMinute

\* The k-th reading of the run.
\* A stale run delivers telemetry three hours old, 90% and 50% in turn; a dense run
\* delivers a reading per second, the first at 90%.
windowReading(run, k) ==
    [timestamp |-> IF run = "backwards"
                   THEN NowStart + (WindowAppends - k) * MsPerMinute
                   ELSE IF (run = "late" /\ k % 2 = 0) \/ run = "stale"
                        THEN windowInstant(k) - 180 * MsPerMinute
                        ELSE IF run = "dense"
                             THEN NowStart + (k - 1) * MsPerSecond
                             ELSE windowInstant(k),
     level |-> IF (run = "stale" /\ k % 2 = 1) \/ (run = "dense" /\ k = 1) THEN 90 ELSE 50]

InitWindow ==
    /\ IdleEngine /\ IdleSink /\ IdleRuntime
    /\ now = NowStart
    /\ config = DefaultConfig
    /\ arg \in [run : WindowRuns]
    /\ ret = [appended |-> 0]

\* Date.now() reaches the instant of the next reading.
WindowClock ==
    /\ arg \in [run : ClockedRuns]
    /\ ret.appended < WindowAppends
    /\ now < windowInstant(ret.appended + 1)
    /\ now' = windowInstant(ret.appended + 1)
    /\ UNCHANGED <<engineVars, sinkVars, runtimeVars, configVars, statusVars, arg, ret>>

\* history.push(currentPoint); pruneHistory(history)
WindowAppend ==
    /\ arg \in [run : WindowRuns]
    /\ ret.appended < WindowAppends
    /\ arg.run \in ClockedRuns => now = windowInstant(ret.appended + 1)
    /\ fuelHistory' = pushAndPrune(fuelHistory, "v1", windowReading(arg.run, ret.appended + 1))
    /\ ret' = [appended |-> ret.appended + 1]
    /\ UNCHANGED <<isMonitoring, pollInterval, feedToken, vehicleCache, sinkVars, runtimeVars,
                   configVars, statusVars, now, arg>>

NextWindow == WindowClock \/ WindowAppend

SpecWindow == InitWindow /\ [][NextWindow]_vars


\* =========================================================================
\* Claims
\* =========================================================================

\* ---- readings of a harness state, stated over sets of positions
WindowMs == config.timeWindowMinutes * MsPerMinute

\* The positions of arg.history whose reading lies in the detection window of
\* arg.currentPoint: windowStart <= timestamp < candidate's timestamp.
WindowOf(history, point) ==
    { i \in 1..Len(history) :
        /\ point.timestamp - WindowMs <= history[i].timestamp
        /\ history[i].timestamp < point.timestamp }

PeakLevelOf(history, point) ==
    CHOOSE l \in { history[i].level : i \in WindowOf(history, point) } :
        \A i \in WindowOf(history, point) : history[i].level <= l

PeaksOf(history, point) ==
    { i \in WindowOf(history, point) : history[i].level = PeakLevelOf(history, point) }

DetectApplied == arg \in [history : Seq(Readings), currentPoint : Readings] /\ ret # Pending

\* ---- the poller
InPass(t, v) ==
    /\ tasks[t].pc \in {"ignition", "trips"}
    /\ tasks[t].groups[1].deviceId = v

\* C1: no two pipeline passes for the same vehicle run concurrently: while one
\* invocation is suspended in the stationary-state query of a pass for vehicle v, no
\* other invocation is inside a pass for v.
C1_SingleFlight ==
    \A v \in Vehicles : \A t, u \in 1..MaxTasks :
        (InPass(t, v) /\ InPass(u, v)) => t = u

\* C2: a feed fetch that fails with a version-conflict error resets the FeedCursor
\* to null, so that a poll begun next omits the cursor; one that fails with any other
\* error leaves the FeedCursor as it was.
C2_CursorOnError ==
    [][ \A t \in 1..MaxTasks : \A error \in FeedErrors :
          FetchFailWith(t, error) =>
             /\ error.mentionsVersion =>
                   /\ feedToken' = null
                   /\ \E u \in 1..MaxTasks :
                         /\ tasks'[u].pc = "free"
                         /\ (pollBegin')[u].pc = "fetch"
                         /\ (pollBegin')[u].sent = null
             /\ ~error.mentionsVersion => feedToken' = feedToken ]_vars

\* Both polls are over, one delivered readings (and so set the cursor), and the
\* cursor is null: the other failed on a version conflict after it.
C2_Witness ==
    /\ polls = 2
    /\ \A t \in 1..MaxTasks : tasks[t].pc = "free"
    /\ fuelHistory["v1"] # <<>>
    /\ feedToken = null

\* C3: a poll sends the current FeedCursor as fromVersion when it is non-null and
\* omits it when it is null; a successful fetch sets the FeedCursor to the version
\* the response carries, and has done so when the invocation suspends in the
\* pipeline, before the delivered readings are all dispatched.
C3_CursorProtocol ==
    [][ \A t \in 1..MaxTasks :
          /\ (tasks[t].pc = "free" /\ tasks'[t].pc = "fetch") =>
                /\ tasks'[t].sent = feedToken
                /\ (feedToken = null <=> tasks'[t].sent = null)
                /\ feedToken' = feedToken
          /\ (tasks[t].pc = "fetch" /\ tasks'[t].pc # "fetch") =>
                \A toVersion \in 1..MaxVersion :
                    feedToken' # toVersion =>
                        \A data \in FeedBatches : ~FetchOkWith(t, toVersion, data) ]_vars

\* A pass suspended in checkVehicleState with the cursor already at version 2, and
\* the next poll in flight with fromVersion 2.
C3_Witness ==
    /\ tasks[1].pc = "ignition"
    /\ feedToken = 2
    /\ tasks[2].pc = "fetch" /\ tasks[2].sent = 2

\* C8: among the readings of the window that share the maximal level, the peak
\* detectSuspiciousDrop reports is the one with the earliest timestamp: whenever a
\* pass suspends on a detection, the detection's previousTimestamp is the least
\* timestamp of the maximal readings of the window it was computed on.
C8_EarliestPeak ==
    [][ \A t \in 1..MaxTasks :
          (tasks'[t] # tasks[t] /\ tasks'[t].pc = "ignition") =>
             LET h == fuelHistory'[tasks'[t].groups[1].deviceId]
                 c == tasks'[t].groups[1].dataPoints[1]
             IN  \A i \in PeaksOf(h, c) :
                    tasks'[t].detection.previousTimestamp <= h[i].timestamp ]_vars

\* C9: determineSeverity is total: critical iff drop > 25 and duration < 10 min,
\* otherwise high iff drop > 15 and duration < 20 min, otherwise medium, with strict
\* comparisons (25 in 10 minutes is high, 30 in 5 minutes is critical); and the alert
\* a pipeline pass stores carries the severity of its DropEvent's dropPercent and
\* durationMinutes.
SeverityRule(dropPercent, durationMs) ==
    CASE dropPercent > 25 /\ durationMs < 10 * MsPerMinute -> "critical"
      [] ~(dropPercent > 25 /\ durationMs < 10 * MsPerMinute)
           /\ dropPercent > 15 /\ durationMs < 20 * MsPerMinute -> "high"
      [] OTHER -> "medium"

C9_Sampled ==
    (arg \in [dropPercent : Int, durationMs : Int] /\ ret # Pending) =>
        /\ ret.severity \in {"critical", "high", "medium"}
        /\ ret.severity = SeverityRule(arg.dropPercent, arg.durationMs)
        /\ (arg.dropPercent = 25 /\ arg.durationMs = 10 * MsPerMinute) => ret.severity = "high"
        /\ (arg.dropPercent = 30 /\ arg.durationMs = 5 * MsPerMinute) => ret.severity = "critical"

C9_Severity ==
    /\ []C9_Sampled
    /\ [][ \A t \in 1..MaxTasks :
             (tasks[t].pc \in {"ignition", "trips"} /\ tasks'[t] # tasks[t]
                 /\ alertIdCounter' # alertIdCounter) =>
                alerts'[1].severity = SeverityRule(tasks[t].detection.dropPercent,
                                                   tasks[t].detection.durationMs) ]_vars

\* A stored pipeline alert for a 30% drop in 9.5 minutes: critical, though its
\* rounded duration is 10.
C9_Witness ==
    \E i \in 1..Len(alerts) :
        /\ alerts[i].severity = "critical"
        /\ alerts[i].fuelDrop = 30
        /\ alerts[i].duration = 10


\* C4: DeduplicationGate cooldown.  Any two stored alerts of one vehicle were
\* accepted at least 5 minutes apart, and a submission is accepted exactly when no
\* earlier accepted alert of its vehicle is less than 5 minutes old: 2 minutes after
\* an accepted alert it is rejected, 6 minutes after it is accepted.
C4_Prior ==
    { i \in 1..Len(alerts) :
        /\ alerts[i].vehicleId = ret.vehicleId
        /\ ~(ret.ok /\ alerts[i].id = alertIdCounter) }

C4_Cooldown ==
    /\ \A i, j \in 1..Len(alerts) :
          (i < j /\ alerts[i].vehicleId = alerts[j].vehicleId)
             => alerts[i].timestamp - alerts[j].timestamp >= 5 * MsPerMinute
    /\ ret.n > 0 =>
          /\ ret.ok <=> (\A i \in C4_Prior : ret.at - alerts[i].timestamp >= 5 * MsPerMinute)
          /\ (\E i \in C4_Prior : ret.at - alerts[i].timestamp = 2 * MsPerMinute) => ~ret.ok
          /\ ( /\ C4_Prior # {}
               /\ \A i \in C4_Prior : ret.at - alerts[i].timestamp >= 6 * MsPerMinute ) => ret.ok

\* Two alerts of v1 accepted 6 minutes apart, then a third submission 2 minutes
\* after the second, rejected.
C4_Witness ==
    /\ Len(alerts) = 2
    /\ alerts[1].vehicleId = "v1" /\ alerts[2].vehicleId = "v1"
    /\ alerts[1].timestamp - alerts[2].timestamp = 6 * MsPerMinute
    /\ ret.n = 3 /\ ret.vehicleId = "v1" /\ ~ret.ok
    /\ ret.at - alerts[1].timestamp = 2 * MsPerMinute

\* C5: a rejected submission changes nothing (alert list, id counter, every
\* vehicle's last accepted instant, the saved alerts); an accepted one stamps exactly its own vehicle
\* with the acceptance instant and leaves the other vehicles' entries alone.
C5_RejectionFrame ==
    [][ ret'.n # ret.n =>
          /\ ~ret'.ok => UNCHANGED <<alerts, alertIdCounter, recentAlerts, storedAlerts>>
          /\ ret'.ok =>
               /\ recentAlerts'[ret'.vehicleId] = ret'.at
               /\ \A v \in Vehicles \ {ret'.vehicleId} : recentAlerts'[v] = recentAlerts[v]
               /\ Len(alerts') = Len(alerts) + 1
               /\ alertIdCounter' = alertIdCounter + 1 ]_vars

\* A rejected submission for v1 while v2 holds an entry of its own.
C5_Witness ==
    /\ ret.n >= 3 /\ ~ret.ok /\ ret.vehicleId = "v1"
    /\ recentAlerts["v1"] # null /\ recentAlerts["v2"] # null
    /\ recentAlerts["v1"] < ret.at

\* C6: detectSuspiciousDrop returns a DropEvent iff the window of the candidate is
\* non-empty and its maximal level exceeds the candidate's by at least the threshold
\* (the peak-to-candidate duration being within the time window); the event carries
\* that peak's level, the candidate's level, their difference and the duration from
\* a maximal reading.  Peak 50, current 42, threshold 10 gives no DropEvent.
C6_DetectIff ==
    DetectApplied =>
        LET h == arg.history
            c == arg.currentPoint
            W == WindowOf(h, c)
            qualifies ==
                /\ W # {}
                /\ PeakLevelOf(h, c) - c.level >= config.dropThreshold
                /\ \E i \in PeaksOf(h, c) : c.timestamp - h[i].timestamp <= WindowMs
        IN  /\ (ret # NoDetection) <=> qualifies
            /\ ret # NoDetection =>
                  /\ ret.dropPercent = PeakLevelOf(h, c) - c.level
                  /\ ret.previousLevel = PeakLevelOf(h, c)
                  /\ ret.currentLevel = c.level
                  /\ \E i \in PeaksOf(h, c) :
                        /\ ret.previousTimestamp = h[i].timestamp
                        /\ ret.durationMs = c.timestamp - h[i].timestamp
            /\ ( /\ config.dropThreshold = 10
                 /\ W # {}
                 /\ PeakLevelOf(h, c) = 50
                 /\ c.level = 42 ) => ret = NoDetection

\* A DropEvent from a two-reading window whose peak is not the latest reading.
C6_Witness ==
    /\ DetectApplied
    /\ ret # NoDetection
    /\ Len(arg.history) = 2
    /\ Cardinality(WindowOf(arg.history, arg.currentPoint)) = 2
    /\ ret.dropPercent = 15 /\ ret.previousLevel = 70 /\ ret.currentLevel = 55

\* C7: the detection window is exactly the readings r with
\* candidate.timestamp - timeWindowMinutes <= r.timestamp < candidate.timestamp:
\* a DropEvent is returned iff some reading in that range lies at least the
\* threshold above the candidate, and its peak is a reading of that range; a reading
\* at the window start counts, one stamped like the candidate does not, and an empty
\* history or window gives none.
C7_WindowBounds ==
    DetectApplied =>
        LET h == arg.history
            c == arg.currentPoint
        IN  /\ (ret # NoDetection) <=>
                  \E i \in 1..Len(h) :
                      /\ c.timestamp - WindowMs <= h[i].timestamp
                      /\ h[i].timestamp < c.timestamp
                      /\ h[i].level - c.level >= config.dropThreshold
            /\ ret # NoDetection =>
                  /\ c.timestamp - WindowMs <= ret.previousTimestamp
                  /\ ret.previousTimestamp < c.timestamp
            /\ (\A i \in 1..Len(h) : h[i].timestamp >= c.timestamp) => ret = NoDetection
            /\ Len(h) = 0 => ret = NoDetection

\* A DropEvent whose peak sits exactly at the window start, the history also holding
\* a higher reading stamped like the candidate.
C7_Witness ==
    /\ DetectApplied
    /\ ret # NoDetection
    /\ ret.previousTimestamp = arg.currentPoint.timestamp - WindowMs
    /\ \E i \in 1..Len(arg.history) :
          /\ arg.history[i].timestamp = arg.currentPoint.timestamp
          /\ arg.history[i].level > ret.previousLevel

\* C10: with both queries answered, checkVehicleState over [t - 5 min, t] returns
\* false if the latest ignition reading exists and is non-zero, false if any trip
\* exists, and true otherwise.
C10_StationaryResult ==
    (arg \in [deviceId : Vehicles, timestamp : Instants,
              ignition : IgnitionAnswers, trips : TripAnswers] /\ ret # Pending) =>
        LET ign == arg.ignition.data
            ignitionOn == Len(ign) > 0 /\ ign[Len(ign)] # 0
            anyTrip == Len(arg.trips.data) > 0
        IN  /\ ret.query.deviceId = arg.deviceId
            /\ ret.query.toDate = arg.timestamp
            /\ ret.query.fromDate = arg.timestamp - 5 * MsPerMinute
            /\ (arg.ignition.ok /\ arg.trips.ok) =>
                  /\ ignitionOn => ~ret.isStationary
                  /\ anyTrip => ~ret.isStationary
                  /\ (~ignitionOn /\ ~anyTrip) => ret.isStationary

\* Stationary: the ignition was on earlier in the window but its latest reading is
\* zero, and there is no trip.
C10_Witness ==
    /\ arg \in [deviceId : Vehicles, timestamp : Instants,
                ignition : IgnitionAnswers, trips : TripAnswers]
    /\ ret # Pending
    /\ arg.ignition.ok /\ arg.trips.ok
    /\ arg.ignition.data = <<1, 0>>
    /\ arg.trips.data = <<>>
    /\ ret.isStationary

\* ---- the pipeline pass of an invocation
\* The readings an invocation still has to walk.
RECURSIVE QueuedIn(_)
QueuedIn(groups) ==
    IF Len(groups) = 0 THEN 0 ELSE Len(groups[1].dataPoints) + QueuedIn(Tail(groups))

RECURSIVE StoredIn(_, _)
StoredIn(fh, vs) ==
    IF vs = {} THEN 0
    ELSE LET v == CHOOSE v \in vs : TRUE IN Len(fh[v]) + StoredIn(fh, vs \ {v})

\* Invocation t, suspended on a detection, went on as after a true answer: the gate
\* was consulted (an alert stored, or the submission a duplicate), the reading was
\* stored, and every reading left of the batch is stored or still queued.
Proceeds(t) ==
    LET deviceId == tasks[t].groups[1].deviceId
        alertData == pipelineAlert(deviceId, tasks[t].detection)
    IN  /\ IF isDuplicate(alertData)
           THEN alerts' = alerts
           ELSE /\ Len(alerts') = Len(alerts) + 1
                /\ alerts'[1].vehicleId = deviceId
                /\ alerts'[1].fuelDrop = tasks[t].detection.dropPercent
        /\ tasks'[t].pc \in {"free", "ignition"}
        /\ tasks'[t].pc = "free" => QueuedIn(tasks'[t].groups) = 0
        /\ StoredIn(fuelHistory', Vehicles) > StoredIn(fuelHistory, Vehicles)
        /\ QueuedIn(tasks[t].groups) + StoredIn(fuelHistory, Vehicles)
              = QueuedIn(tasks'[t].groups) + StoredIn(fuelHistory', Vehicles)

VerifyArgs ==
    [deviceId : Vehicles, timestamp : Instants, ignition : IgnitionAnswers, trips : TripAnswers]

C11_Function ==
    (arg \in VerifyArgs /\ ret # Pending) =>
        /\ ~arg.ignition.ok => ret.isStationary
        /\ (ret.tripsQueried /\ ~arg.trips.ok) => ret.isStationary

\* C11: checkVehicleState fails open: a failed ignition query, or a failed trip
\* query, makes it return true; in the pipeline the pass then goes on to alerting,
\* stores the reading and walks the readings that remain.
C11_FailOpen ==
    /\ []C11_Function
    /\ [][ \A t \in 1..MaxTasks :
             /\ (tasks[t].pc = "ignition" /\ tasks'[t] # tasks[t]) =>
                   \A answer \in IgnitionAnswers :
                       (~answer.ok /\ IgnitionAnswerWith(t, answer)) => Proceeds(t)
             /\ (tasks[t].pc = "trips" /\ tasks'[t] # tasks[t]) =>
                   \A answer \in TripAnswers :
                       (~answer.ok /\ TripsAnswerWith(t, answer)) => Proceeds(t) ]_vars

\* The ignition was off, the trip query failed, and the answer was: stationary.
C11_Witness ==
    /\ arg \in VerifyArgs
    /\ ret # Pending
    /\ arg.ignition.ok /\ arg.ignition.data = <<0>>
    /\ ~arg.trips.ok
    /\ ret.tripsQueried
    /\ ret.isStationary

\* ---- C12
\* The continuous pass t is suspended in checkVehicleState for the reading at the
\* head of its groups: the detector returned a drop event on that very reading.
VerifierQueried(t) ==
    LET g == tasks'[t].groups[1]
    IN  /\ tasks'[t].detection # NoDetection
        /\ tasks'[t].detection = detectSuspiciousDrop(fuelHistory'[g.deviceId], g.dataPoints[1])

\* The same for the historical run.
ScanVerifierQueried ==
    /\ scan'.detection # NoDetection
    /\ scan'.detection = detectSuspiciousDrop(scan'.history, scan'.queue[1])

\* The step gives checkVehicleState's verdict to the suspended pass t.
VerdictOf(t, isStationary) ==
    \/ /\ tasks[t].pc = "ignition"
       /\ \E answer \in IgnitionAnswers :
              /\ afterIgnition(answer) = (IF isStationary THEN "true" ELSE "false")
              /\ IgnitionAnswerWith(t, answer)
    \/ /\ tasks[t].pc = "trips"
       /\ \E answer \in TripAnswers :
              afterTrips(answer) = isStationary /\ TripsAnswerWith(t, answer)

ScanVerdictOf(isStationary) ==
    \/ /\ scan.pc = "ignition"
       /\ \E answer \in IgnitionAnswers :
              /\ afterIgnition(answer) = (IF isStationary THEN "true" ELSE "false")
              /\ ScanIgnitionAnswerWith(answer)
    \/ /\ scan.pc = "trips"
       /\ \E answer \in TripAnswers :
              afterTrips(answer) = isStationary /\ ScanTripsAnswerWith(answer)

\* The alert the step put at the head of the sink is the one of the detection d on
\* vehicle id, with the severity of that detection.
EmittedFor(id, d) ==
    /\ Len(alerts') = Len(alerts) + 1
    /\ SubSeq(alerts', 2, Len(alerts')) = alerts
    /\ alerts'[1].vehicleId = id
    /\ alerts'[1].fuelDrop = d.dropPercent
    /\ alerts'[1].previousLevel = d.previousLevel
    /\ alerts'[1].currentLevel = d.currentLevel
    /\ alerts'[1].severity = determineSeverity(d.dropPercent, d.durationMs)

\* C12: checkVehicleState is queried only on a reading the detector returned a drop
\* event for; the sink changes (the gate consulted, an alert emitted) only in the step
\* in which checkVehicleState returns true for such a reading, and the alert is the
\* one of that reading's detection, its severity included; a verdict of false leaves
\* the sink as it was.
C12_Gating ==
    [][ /\ \A t \in 1..MaxTasks :
              /\ (tasks'[t].pc = "ignition" /\ tasks'[t] # tasks[t]) => VerifierQueried(t)
              /\ (tasks'[t].pc = "trips" /\ tasks'[t] # tasks[t]) =>
                    /\ tasks[t].pc = "ignition"
                    /\ tasks'[t] = [tasks[t] EXCEPT !.pc = "trips"]
              /\ (tasks[t].pc \in {"ignition", "trips"} /\ tasks'[t] # tasks[t]) =>
                    (VerdictOf(t, FALSE) => UNCHANGED sinkVars)
        /\ (scan'.pc = "ignition" /\ scan' # scan) => ScanVerifierQueried
        /\ (scan'.pc = "trips" /\ scan' # scan) =>
              /\ scan.pc = "ignition"
              /\ scan' = [scan EXCEPT !.pc = "trips"]
        /\ (scan.pc \in {"ignition", "trips"} /\ scan' # scan) =>
              (ScanVerdictOf(FALSE) => UNCHANGED sinkVars)
        /\ sinkVars' # sinkVars =>
              \/ \E t \in 1..MaxTasks :
                     /\ tasks[t].detection # NoDetection
                     /\ VerdictOf(t, TRUE)
                     /\ EmittedFor(tasks[t].groups[1].deviceId, tasks[t].detection)
              \/ /\ scan.detection # NoDetection
                 /\ ScanVerdictOf(TRUE)
                 /\ EmittedFor(scan.vehicles[scan.index].id, scan.detection) ]_vars

\* A continuous pass has raised a critical alert for a 30% drop of v1 and has nothing
\* left to do.
C12_Witness ==
    /\ arg = NoArg
    /\ Len(alerts) = 1
    /\ alerts[1].vehicleId = "v1"
    /\ alerts[1].fuelDrop = 30
    /\ alerts[1].severity = "critical"
    /\ \A t \in 1..MaxTasks : tasks[t].pc = "free"

\* A historical run over two vehicles has ended, one alert raised and counted.
C12_ScanReached ==
    /\ scan.pc = "done"
    /\ scan.totalAlerts = 1
    /\ Len(alerts) = 1
    /\ alerts[1].fuelDrop = 30

phase(monitoring, awaiting) ==
    IF monitoring THEN "Active" ELSE IF awaiting > 0 THEN "Starting" ELSE "Stopped"

\* Stopped -> Starting -> Active -> Stopped, and a start that fails on the registry
\* load goes back from Starting to Stopped.
LifecycleTransitions ==
    { <<"Stopped", "Starting">>, <<"Starting", "Active">>, <<"Active", "Stopped">>,
      <<"Starting", "Stopped">> }

\* C14: the poller changes phase only along Stopped -> Starting -> Active -> Stopped
\* (a failed start going back to Stopped), and a poll tick that fails leaves the
\* monitoring flag and the armed timer as they were, so later ticks still fire.
C14_Lifecycle ==
    [][ /\ phase(isMonitoring, starts) # phase(isMonitoring', starts') =>
              <<phase(isMonitoring, starts), phase(isMonitoring', starts')>>
                  \in LifecycleTransitions
        /\ \A t \in 1..MaxTasks :
              (tasks[t].pc = "fetch" /\ \E error \in FeedErrors : FetchFailWith(t, error)) =>
                  UNCHANGED <<isMonitoring, pollInterval, timers>> ]_vars

\* The tick-failure half of C14 alone.
C14_TickFailure ==
    [][ \A t \in 1..MaxTasks :
          (tasks[t].pc = "fetch" /\ \E error \in FeedErrors : FetchFailWith(t, error)) =>
              UNCHANGED <<isMonitoring, pollInterval, timers>> ]_vars

\* ---- C15
\* The pollForFuelData invocations awaiting GetFeed.
Fetching(ts) == { t \in 1..MaxTasks : ts[t].pc = "fetch" }

\* C15: the step in which a startMonitoring call gets the registry makes the poller
\* active, begins exactly one poll and arms exactly one timer, of period
\* config.pollIntervalSeconds, which pollInterval then refers to; a startMonitoring
\* call made while the poller is active changes nothing at all.
C15_Start ==
    [][ /\ LoadVehiclesOk =>
              /\ Len(vehicleCache') > 0
              /\ isMonitoring'
              /\ polls' = polls + 1
              /\ Cardinality(Fetching(tasks') \ Fetching(tasks)) = 1
              /\ \A t \in 1..MaxTasks : t \notin Fetching(tasks') \ Fetching(tasks) =>
                                            tasks'[t] = tasks[t]
              /\ \E tm \in timers' \ timers :
                     /\ timers' = timers \cup {tm}
                     /\ tm.periodMs = config.pollIntervalSeconds * MsPerSecond
                     /\ pollInterval' = tm.id
              /\ UNCHANGED <<config, feedToken, fuelHistory, sinkVars>>
        /\ (isMonitoring /\ StartMonitoringUpTo(MaxRacingStarts)) => UNCHANGED vars ]_vars

\* The interval was set to 10 seconds in the dialog, then the monitor was started:
\* active, one poll made and still awaiting the feed, one timer of 10 seconds.
C15_Witness ==
    /\ isMonitoring
    /\ starts = 0
    /\ polls = 1
    /\ Cardinality(Fetching(tasks)) = 1
    /\ config.pollIntervalSeconds = 10
    /\ timers = {[id |-> 1, periodMs |-> 10 * MsPerSecond]}
    /\ pollInterval = 1

\* ---- C16
\* The state stopMonitoring leaves when called in the state given by the arguments.
afterStop(armed, handle) ==
    [timers |-> IF handle # null THEN { tm \in armed : tm.id # handle } ELSE armed,
     pollInterval |-> null,
     isMonitoring |-> FALSE,
     status |-> "inactive"]

\* C16: after stopMonitoring the poller is not active and no timer is armed, and a
\* second stopMonitoring leaves the cursor, the histories, the config and the
\* monitoring state as the first left them.
C16_Stop ==
    [][ StopMonitoring =>
          /\ ~isMonitoring'
          /\ pollInterval' = null
          /\ timers' = {}
          /\ UNCHANGED <<feedToken, fuelHistory, config, storedConfig>>
          /\ afterStop(timers', pollInterval') =
                [timers |-> timers', pollInterval |-> pollInterval',
                 isMonitoring |-> isMonitoring', status |-> status'] ]_vars

\* The idempotence half of C16 alone: stopping twice is stopping once.
C16_Idempotent ==
    [][ StopMonitoring =>
          /\ ~isMonitoring'
          /\ pollInterval' = null
          /\ \A tm \in timers' : tm.id # pollInterval
          /\ UNCHANGED <<feedToken, fuelHistory, config, storedConfig>>
          /\ afterStop(timers', pollInterval') =
                [timers |-> timers', pollInterval |-> pollInterval',
                 isMonitoring |-> isMonitoring', status |-> status'] ]_vars

\* ---- C17
\* While the poller is active a timer is armed, and what is armed has the configured
\* period.
TimerFollowsConfig ==
    isMonitoring =>
        /\ timers # {}
        /\ \A tm \in timers : tm.periodMs = config.pollIntervalSeconds * MsPerSecond

\* The step is a settings change that goes through to updateConfig.
SettingsApplied ==
    \E threshold \in ThresholdInputs, timeWindow \in TimeWindowInputs,
       pollIntervalInput \in PollIntervalInputs :
        /\ settingsValid(threshold, timeWindow, pollIntervalInput)
        /\ SaveSettingsWith(threshold, timeWindow, pollIntervalInput)

\* An update made while the poller is active cancels the timer pollInterval refers to
\* and arms one new timer of the new period, in the step that changes the config; the
\* polls in flight are left alone.
RearmedAtomically ==
    (isMonitoring /\ config'.pollIntervalSeconds # config.pollIntervalSeconds) =>
        /\ \A tm \in timers : tm.id = pollInterval => tm \notin timers'
        /\ \E tm \in timers' \ timers :
               /\ timers' \ timers = {tm}
               /\ tm.id = pollInterval'
               /\ tm.periodMs = config'.pollIntervalSeconds * MsPerSecond
        /\ UNCHANGED <<tasks, polls, isMonitoring>>

\* C17: whenever the poller is active, the armed timer has the period of the current
\* config.pollIntervalSeconds; and an update that changes pollIntervalSeconds while
\* the poller is active re-arms atomically.
C17_Atomic ==
    /\ []TimerFollowsConfig
    /\ [][ config' # config => RearmedAtomically ]_vars

\* The step half of C17 alone.
C17_Rearm == [][ config' # config => (SettingsApplied /\ RearmedAtomically) ]_vars

\* ---- C18
\* The three fields of cfg lie in their ranges.
inRange(cfg) ==
    /\ cfg.dropThreshold >= 1 /\ cfg.dropThreshold <= 50
    /\ cfg.timeWindowMinutes >= 5 /\ cfg.timeWindowMinutes <= 120
    /\ cfg.pollIntervalSeconds >= 10 /\ cfg.pollIntervalSeconds <= 300

\* C18: an update with a field out of its range is rejected before anything is
\* changed (the config, the stored config and the timer stay as they were), so the
\* config is within the ranges in every reachable state.
C18_Validated ==
    /\ [](inRange(config))
    /\ [][ \A newConfig \in ApiConfigs :
             (~inRange(spread(DefaultConfig, newConfig)) /\ updateConfig(newConfig)) =>
                 UNCHANGED <<config, storedConfig, timers, pollInterval>> ]_vars

\* The dialog half of C18 alone: with saveSettings the only caller of updateConfig,
\* the config and the store change only when all three inputs are valid, and a config
\* within the ranges stays within them.
C18_Dialog ==
    [][ (config' # config \/ storedConfig' # storedConfig) =>
            /\ SettingsApplied
            /\ inRange(config') ]_vars

\* ---- C19
\* The store holds nothing, or text that does not parse.
storeMissingOrMalformed(saved) == saved = NoItem \/ saved = Malformed

\* The store holds an object with a field outside its range.
storeInvalid(saved) ==
    /\ "json" \in DOMAIN saved
    /\ ~inRange(spread(DefaultConfig, saved.json))

\* C19: when the add-in is loaded with a store that holds nothing, something
\* malformed or something invalid, the config is the defaults (10%, 30 minutes, 30
\* seconds); and every change of the config is written to the store.
C19_Defaults ==
    /\ (storeMissingOrMalformed(storedConfig) \/ storeInvalid(storedConfig)) =>
           config = DefaultConfig
    /\ [][ config' # config => storedConfig' = jsonItem(config') ]_vars

\* The half of C19 that holds: a missing or malformed item gives the defaults, and
\* every updateConfig call ends in saveConfig, which writes the config unless
\* localStorage refuses.
C19_MissingOrMalformed ==
    /\ storeMissingOrMalformed(storedConfig) => config = DefaultConfig
    /\ [][ config' # config => storedConfig' \in saveConfig(config', storedConfig) ]_vars

\* ---- C20
\* The readings from the from-th to the to-th of the run, in order of arrival.
Arrived(run, from, to) == [k \in 1..(to - from + 1) |-> windowReading(run, from + k - 1)]

\* seq is what is left of whole after entries were taken from its head.
IsTailOf(seq, whole) ==
    /\ Len(seq) <= Len(whole)
    /\ seq = SubSeq(whole, Len(whole) - Len(seq) + 1, Len(whole))

\* The window never holds more than 500 entries.
WindowCapped == \A v \in Vehicles : Len(fuelHistory[v]) <= MaxHistoryEntries

\* The whole run has been appended.
RunDone(run) == arg \in [run : {run}] /\ ret.appended = WindowAppends

WithinHorizon(window) ==
    \A i \in 1..Len(window) : window[i].timestamp >= now - RetentionMs

\* C21: after every append to a vehicle's window no entry older than the 2-hour
\* retention horizon is left in it, however few entries it holds.
C21_Horizon ==
    [][ \A v \in Vehicles :
          fuelHistory'[v] # fuelHistory[v] => WithinHorizon(fuelHistory[v])' ]_vars

\* What holds of the horizon: after every append the entry at the head of the window
\* is not older than two hours, unless it is the only one and has just been appended
\* (everything was shifted out before it).
C21_Head ==
    [][ \A v \in Vehicles :
          (fuelHistory'[v] # fuelHistory[v] /\ Len(fuelHistory'[v]) > 0) =>
              fuelHistory'[v][1].timestamp >= now' - RetentionMs ]_vars

\* ---- C22
\* C22: every vehicle's window is in time order in every reachable state: the
\* timestamps do not decrease from the first entry to the last.
C22_TimeOrdered ==
    \A v \in Vehicles :
        \A i \in 1..(Len(fuelHistory[v]) - 1) :
            fuelHistory[v][i].timestamp <= fuelHistory[v][i + 1].timestamp

\* What holds of the order: the readings one GetFeed answer delivers for a vehicle
\* are walked, and so appended, in ascending order of timestamp.
C22_BatchOrdered ==
    \A t \in 1..MaxTasks :
        \A g \in 1..Len(tasks[t].groups) :
            \A i \in 1..(Len(tasks[t].groups[g].dataPoints) - 1) :
                tasks[t].groups[g].dataPoints[i].timestamp
                    <= tasks[t].groups[g].dataPoints[i + 1].timestamp

\* ---- C23
\* The readings of vehicle v an invocation still has to walk, in the order in which
\* it will walk them.
RECURSIVE QueuedFor(_, _)
QueuedFor(groups, v) ==
    IF Len(groups) = 0 THEN <<>>
    ELSE (IF groups[1].deviceId = v THEN groups[1].dataPoints ELSE <<>>)
             \o QueuedFor(Tail(groups), v)

\* What the step appended to the window of v, nothing having been taken from it.
AppendedTo(v) == SubSeq(fuelHistory'[v], Len(fuelHistory[v]) + 1, Len(fuelHistory'[v]))

OnlyAppended(v) ==
    /\ Len(fuelHistory'[v]) >= Len(fuelHistory[v])
    /\ SubSeq(fuelHistory'[v], 1, Len(fuelHistory[v])) = fuelHistory[v]

Ascending(seq) == \A i \in 1..(Len(seq) - 1) : seq[i].timestamp <= seq[i + 1].timestamp

\* How often reading r occurs in seq.
TimesIn(seq, r) == Cardinality({ i \in 1..Len(seq) : seq[i] = r })

\* How often the batch delivers reading r for vehicle v.
TimesDelivered(data, v, r) ==
    Cardinality({ i \in 1..Len(data) :
                    /\ data[i].device = v
                    /\ [timestamp |-> data[i].dateTime, level |-> data[i].data] = r })

\* The readings the feed may stamp.
DeliveredReadings == { [timestamp |-> r.dateTime, level |-> r.data] : r \in FeedReadings }

\* Of the batch delivered to invocation t, every reading of every vehicle is, once
\* each, either appended to that vehicle's window or queued for it, and appended and
\* queued together run in ascending order of timestamp.
Dispatched(t, data) ==
    \A v \in Vehicles :
        /\ OnlyAppended(v)
        /\ Ascending(AppendedTo(v) \o QueuedFor(tasks'[t].groups, v))
        /\ \A r \in DeliveredReadings :
               TimesIn(AppendedTo(v) \o QueuedFor(tasks'[t].groups, v), r)
                   = TimesDelivered(data, v, r)

\* Invocation t, suspended on the reading at the head of its groups, has gone on: that
\* reading is appended to its vehicle's window, and what was queued is appended or
\* still queued, in the same order.
WalkedOn(t) ==
    /\ \A v \in Vehicles :
           /\ OnlyAppended(v)
           /\ AppendedTo(v) \o QueuedFor(tasks'[t].groups, v) = QueuedFor(tasks[t].groups, v)
    /\ Len(AppendedTo(tasks[t].groups[1].deviceId)) > 0
    /\ AppendedTo(tasks[t].groups[1].deviceId)[1] = tasks[t].groups[1].dataPoints[1]

\* C23: of a GetFeed answer every reading is walked in its own vehicle's pipeline
\* exactly once and in ascending order of timestamp, and every reading walked is
\* appended to that vehicle's window, whether it led to a detection, to an alert, to a
\* rejected alert or to nothing; a pass that has ended has nothing left to walk.
C23_Dispatch ==
    [][ \A t \in 1..MaxTasks :
          /\ (tasks[t].pc = "fetch" /\ tasks'[t].pc # "fetch") =>
                \A toVersion \in 1..MaxVersion, data \in FeedBatches :
                    FetchOkWith(t, toVersion, data) => Dispatched(t, data)
          /\ (tasks[t].pc \in {"ignition", "trips"} /\ tasks'[t] # tasks[t]
                 /\ tasks'[t].pc # "trips") => WalkedOn(t)
          /\ (tasks'[t].pc = "free") =>
                \A v \in Vehicles : QueuedFor(tasks'[t].groups, v) = <<>>
          /\ (tasks'[t].pc = "trips") => tasks'[t].groups = tasks[t].groups ]_vars

\* v1 fell from 90% to 60% in 9.5 minutes, the vehicle was found moving and no alert
\* was raised: both readings are in the window all the same, the pass has ended.
C23_Witness ==
    /\ arg = NoArg
    /\ alerts = <<>>
    /\ fuelHistory["v1"] = << [timestamp |-> 0, level |-> 90],
                              [timestamp |-> 9 * MsPerMinute + 30 * MsPerSecond, level |-> 60] >>
    /\ \A t \in 1..MaxTasks : tasks[t].pc = "free"
    /\ polls > 0

\* ---- C24
\* C24: a historical run returns the number of alerts it added to the sink (the sink
\* was empty when the run began).
C24_Count ==
    scan.pc = "done" =>
        /\ ret = [returned |-> scan.totalAlerts]
        /\ scan.totalAlerts = Len(alerts)

\* What holds of the count: the run returns the number of readings on which the
\* detector answered and checkVehicleState said stationary, each of which was
\* submitted to addAlert; the sink holds at most that many.
C24_Submitted ==
    scan.pc = "done" =>
        /\ ret = [returned |-> scan.totalAlerts]
        /\ Len(alerts) <= scan.totalAlerts
        /\ (scan.totalAlerts > 0) => Len(alerts) > 0

\* ---- C25
\* The alert object is tagged historical.
TaggedHistorical(alert) == "isHistorical" \in DOMAIN alert /\ alert.isHistorical

\* C25: an alert the historical run adds to the sink is stored tagged historical and
\* stamped with the instant of the reading that completed the drop; an alert of the
\* continuous poller is not tagged.
C25_Historical ==
    [][ alerts' # alerts =>
          IF scan.pc \in {"ignition", "trips"}
          THEN /\ TaggedHistorical(alerts'[1])
               /\ alerts'[1].timestamp = scan.queue[1].timestamp
          ELSE ~TaggedHistorical(alerts'[1]) ]_vars

\* What holds: no alert in the sink is tagged, and each is stamped with the wall clock
\* of the instant it was added, whichever mode submitted it.
C25_Untagged ==
    [][ alerts' # alerts =>
          /\ ~TaggedHistorical(alerts'[1])
          /\ alerts'[1].timestamp = now ]_vars

\* ---- C26
\* The percents the progress callback has been called with are the per-vehicle ones:
\* call k reports round(100 * k / N), N the number of vehicles of the run.
PerVehiclePercents(progress, n) ==
    /\ Len(progress) = n
    /\ \A k \in 1..n : progress[k] = MathRound(k * 100, n)

\* C26: when a historical run over N vehicles has returned, the progress callback has
\* been called exactly N times, once after each vehicle, with round(100 * processed / N):
\* the percents never decrease and the last one is 100.
C26_OncePerVehicle ==
    scan.pc = "done" =>
        /\ PerVehiclePercents(scan.progress, Len(scan.vehicles))
        /\ \A k \in 1..(Len(scan.progress) - 1) : scan.progress[k] <= scan.progress[k + 1]
        /\ Len(scan.vehicles) > 0 => scan.progress[Len(scan.progress)] = 100

\* What holds: the callback is called N + 2 times, with 0 before the first vehicle, the
\* per-vehicle percents, and 100 once more after the last vehicle.
C26_Bracketed ==
    scan.pc = "done" =>
        /\ Len(scan.progress) = Len(scan.vehicles) + 2
        /\ scan.progress[1] = 0
        /\ PerVehiclePercents(SubSeq(scan.progress, 2, Len(scan.vehicles) + 1), Len(scan.vehicles))
        /\ scan.progress[Len(scan.progress)] = 100

\* ---- C27
\* The range query of the vehicle under analysis answers with fewer than 2 readings.
ScanFetchShort == \E fuelData \in ScanBatches : Len(fuelData) < 2 /\ ScanFetchOkWith(fuelData)

\* The vehicle under analysis is passed over: nothing is added to the sink or to the
\* total, the vehicle counts as processed, and the run goes on to the next vehicle or,
\* none being left, returns the total.
PassedOver ==
    /\ alerts' = alerts
    /\ scan'.totalAlerts = scan.totalAlerts
    /\ scan'.processed = scan.processed + 1
    /\ IF scan.index < Len(scan.vehicles)
       THEN scan'.pc = "fetch" /\ scan'.index = scan.index + 1 /\ ret' = Pending
       ELSE scan'.pc = "done" /\ ret' = [returned |-> scan.totalAlerts]

\* C27: in a historical run a vehicle whose range query fails, or answers with fewer than
\* 2 readings, adds no alert and does not fail the batch: the run goes on with the next
\* vehicle, a run that returns has processed every vehicle, and a run whose calls are all
\* answered returns its count once the loop over the vehicles is entered.
C27_Skips ==
    /\ [][(ScanFetchFail \/ ScanFetchShort) => PassedOver]_vars
    /\ [](scan.pc = "done" => scan.processed = Len(scan.vehicles))
    /\ (scan.pc = "fetch") ~> (scan.pc = "done" /\ ret = [returned |-> scan.totalAlerts])

\* The range query of the first vehicle has failed, the second vehicle has been analysed
\* and has given an alert, and the run has returned.
C27_Witness ==
    /\ scan.pc = "done"
    /\ scan.errors = <<1>>
    /\ scan.processed = 2
    /\ ret = [returned |-> 1]
    /\ Len(alerts) = 1

\* ---- C28
\* C28: a historical run awaits the registry only if it finds the cache empty, and
\* otherwise analyses the vehicles of the cache as it found it; a failed registry load
\* ends the run with the error thrown to the caller, and a run ends that way only so:
\* no vehicle has then been analysed and no alert added.
C28_Registry ==
    /\ [][ /\ (scan.pc = "idle" /\ scan'.pc # "idle") =>
                IF Len(vehicleCache) = 0
                THEN scan'.pc = "registry" /\ vehicleCache' = vehicleCache
                ELSE /\ scan'.pc \in {"fetch", "done"}
                     /\ scan'.vehicles = vehicleCache
                     /\ vehicleCache' = vehicleCache
           /\ vehicleCache' # vehicleCache => scan.pc = "registry"
           /\ ScanRegistryFail => scan'.pc = "failed"
           /\ (scan'.pc = "failed" /\ scan.pc # "failed") => ScanRegistryFail ]_vars
    /\ [](scan.pc = "failed" <=> ret = [thrown |-> TRUE])
    /\ [](scan.pc = "failed" =>
             /\ scan.vehicles = <<>> /\ scan.processed = 0 /\ scan.progress = <<>>
             /\ alerts = <<>> /\ vehicleCache = <<>>)

\* The registry load of a run that found the cache empty has failed: the caller has the
\* error, and the sink is empty.
C28_Witness ==
    /\ scan.pc = "failed"
    /\ ret = [thrown |-> TRUE]
    /\ vehicleCache = <<>>
    /\ alerts = <<>>

\* A run that found one vehicle in the cache has analysed that vehicle and returned,
\* the cache as it was.
C28_Reused ==
    /\ scan.pc = "done"
    /\ vehicleCache \in RegistryAnswers
    /\ scan.vehicles = vehicleCache
    /\ scan.processed = 1

\* ---- C29
\* C29: whenever a historical replay is suspended, its local history holds no reading
\* more than 2 * timeWindowMinutes older than the reading processed last, whatever the
\* wall clock and the 2-hour horizon of the continuous mode.
C29_LocalWindow ==
    (scan.pc \in {"ignition", "trips"} /\ Len(scan.history) > 0) =>
        \A k \in 1..Len(scan.history) :
            scan.history[Len(scan.history)].timestamp - scan.history[k].timestamp
               <= 2 * config.timeWindowMinutes * MsPerMinute

\* The replay of the readings at t0, t0+80min and t0+89min is suspended on the third, the
\* first having left the local history when the second was processed (80 minutes older,
\* window 30 minutes), though it is within 2 hours of the second.
C29_Witness ==
    /\ scan.pc = "ignition"
    /\ scan.queue = <<[timestamp |-> 89 * MsPerMinute, level |-> 0]>>
    /\ scan.history = <<[timestamp |-> 80 * MsPerMinute, level |-> 20]>>

\* ---- C30
\* C30: whatever the sequence of addAlert, dismissAlert, clearAlerts and reloads, every
\* id addAlert gives out is greater than every id it has given out before.
C30_NeverReused ==
    \A i, j \in 1..Len(ret.issued) : i < j => ret.issued[i] < ret.issued[j]

\* What holds: addAlert gives out the counter plus one, and dismissAlert leaves the
\* counter alone; clearAlerts and a reload set it from the saved item.
C30_Counter ==
    [][ /\ Len(ret'.issued) > Len(ret.issued) =>
              /\ alertIdCounter' = alertIdCounter + 1
              /\ ret'.issued[Len(ret'.issued)] = alertIdCounter'
        /\ alertIdCounter' < alertIdCounter =>
              /\ ret' = ret
              /\ alertIdCounter' = loadedCounter(0, storedAlerts') ]_vars

\* ---- C31
\* C31: in every state at most one repeating timer is armed, and an armed timer is the
\* one pollInterval refers to, so that stopMonitoring can cancel it; this for every
\* interleaving of startMonitoring, stopMonitoring and changes of the settings, a second
\* startMonitoring during the registry load of an earlier one included.
C31_OneTimer ==
    /\ Cardinality(timers) <= 1
    /\ \A tm \in timers : tm.id = pollInterval

\* ---- C32
\* C32: once stopMonitoring has returned, and startMonitoring not being called again, the
\* poller stays stopped: isActive() is false, no timer is armed and no poll tick begins,
\* also when stopMonitoring was called during the registry load of an earlier
\* startMonitoring.
C32_StaysStopped ==
    /\ [](ret = Stopped => (~isMonitoring /\ timers = {} /\ pollInterval = null))
    /\ [][ret = Stopped => polls' = polls]_vars

\* What holds: once stopMonitoring has returned, only the continuation of a
\* startMonitoring that was awaiting the registry makes the poller active again.
C32_OnlyPendingStart ==
    [][ (ret = Stopped /\ starts' = starts) =>
           (~isMonitoring => (~isMonitoring' /\ timers' = timers /\ polls' = polls)) ]_vars

\* ---- C33
\* No two invocations await a GetFeed sent with the same cursor.
DistinctCursors ==
    \A t, u \in 1..MaxTasks :
        (t # u /\ tasks[t].pc = "fetch" /\ tasks[u].pc = "fetch" /\ tasks[t].sent # null)
           => tasks[t].sent # tasks[u].sent

\* No reading is in a history window twice.
AppendedOnce ==
    \A v \in Vehicles : \A i, j \in 1..Len(fuelHistory[v]) :
        fuelHistory[v][i].timestamp = fuelHistory[v][j].timestamp => i = j

\* C33: with every fetch succeeding, and for every interleaving of ticks, the cursor
\* never goes back, no two fetches are under way with the same cursor, and no reading
\* the feed delivers is appended to a history window twice.
C33_Cursor ==
    /\ [][feedToken' >= feedToken]_vars
    /\ []DistinctCursors
    /\ []AppendedOnce

\* What holds: the same when the timer never fires during a fetch.
C33_Serial ==
    /\ [][feedToken' >= feedToken]_vars
    /\ []DistinctCursors
    /\ []AppendedOnce
    /\ [](Len(fuelHistory["v1"]) = feedToken)

\* ---- C34
\* C34: no step of a historical run changes a continuous history window, the feed
\* cursor, the monitoring flag, the timers or the config; what it changes of the state
\* it shares with the poller is the registry cache and, through addAlert, the alert list,
\* its counter and saved item, and the deduplication entries.
C34_Frame ==
    [][ scan' # scan =>
          /\ UNCHANGED <<fuelHistory, feedToken, isMonitoring, pollInterval, timers, timerSeq,
                         config, storedConfig, status, tasks, polls>>
          /\ vehicleCache' # vehicleCache => scan.pc = "registry"
          /\ sinkVars' # sinkVars => scan.pc \in {"ignition", "trips"} ]_vars

\* A historical run has returned with an alert added while the engine was monitoring
\* with a cursor and a history window for v1.
C34_Witness ==
    /\ scan.pc = "done"
    /\ Len(alerts) > 0
    /\ recentAlerts # [v \in Vehicles |-> null]
    /\ isMonitoring
    /\ timers # {}
    /\ feedToken # null
    /\ Len(fuelHistory["v1"]) = 2

\* ---- C35
\* C35: a DropEvent detectSuspiciousDrop returns has a duration above 0 and of at most
\* timeWindowMinutes, and a drop equal to previousLevel - currentLevel and of at least
\* dropThreshold; the duration test rejects nothing: an event is returned whenever the
\* highest level of the window exceeds the candidate's by the threshold.
C35_Bounds ==
    DetectApplied =>
        /\ ret # NoDetection =>
              /\ 0 < ret.durationMs
              /\ ret.durationMs <= config.timeWindowMinutes * MsPerMinute
              /\ ret.dropPercent = ret.previousLevel - ret.currentLevel
              /\ ret.dropPercent >= config.dropThreshold
        /\ ( /\ WindowOf(arg.history, arg.currentPoint) # {}
             /\ PeakLevelOf(arg.history, arg.currentPoint) - arg.currentPoint.level
                   >= config.dropThreshold ) => ret # NoDetection

\* A DropEvent whose peak is at the start of the window: its duration is the whole
\* timeWindowMinutes.
C35_Witness ==
    /\ DetectApplied
    /\ ret # NoDetection
    /\ ret.durationMs = config.timeWindowMinutes * MsPerMinute
    /\ ret.dropPercent = 28

\* ---- C36
\* The DropEvents of a replay that keeps every reading: the candidate at the head of
\* queue is tested against all the readings before it.
RECURSIVE unprunedEvents(_, _)
unprunedEvents(history, queue) ==
    IF Len(queue) = 0 THEN <<>>
    ELSE LET detection == detectSuspiciousDrop(history, queue[1])
         IN  (IF detection = NoDetection THEN <<>>
              ELSE <<[reading |-> queue[1], event |-> detection]>>)
                \o unprunedEvents(Append(history, queue[1]), Tail(queue))

\* C36: the replay of a sequence of readings sorted by time, pruning its history at
\* twice the time window, makes the DropEvents of a replay that never prunes: on the
\* same readings, with the same peaks, drops and durations.
C36_Transparent ==
    (arg \in [readings : Seq(Readings)] /\ ret # Pending) =>
        ret.events = unprunedEvents(<<>>, sortByTimestamp(arg.readings))

\* With a window of 5 minutes the reading at t0 is pruned when that at t0+12min is
\* stored, and the reading at t0+12.5min gives a DropEvent from the latter.
C36_Witness ==
    /\ arg = [readings |-> <<[timestamp |-> 0, level |-> 70],
                             [timestamp |-> 12 * MsPerMinute, level |-> 70],
                             [timestamp |-> 12 * MsPerMinute + 30 * MsPerSecond, level |-> 50]>>]
    /\ config.timeWindowMinutes = 5
    /\ scanPrune(SubSeq(arg.readings, 1, 2), arg.readings[2]) = <<arg.readings[2]>>
    /\ ret # Pending
    /\ Len(ret.events) = 1
    /\ ret.events[1].event.dropPercent = 20

\* ---- C37
\* The readings in a window.
Held(window) == { window[i] : i \in 1..Len(window) }

\* The window of v1 holds every reading appended so far that is stamped within
\* timeWindowMinutes before the reading delivered next, so that this reading is compared
\* with the peak it would have among all the readings appended so far.
NothingNeededEvicted ==
    LET candidate == windowReading(arg.run, ret.appended + 1)
        appended == Arrived(arg.run, 1, ret.appended)
        held == Held(fuelHistory["v1"])
    IN  /\ \A k \in 1..ret.appended :
              ( /\ appended[k].timestamp >= candidate.timestamp
                                               - config.timeWindowMinutes * MsPerMinute
                /\ appended[k].timestamp < candidate.timestamp ) => appended[k] \in held
        /\ WindowOf(fuelHistory["v1"], candidate) = {} <=> WindowOf(appended, candidate) = {}
        /\ WindowOf(appended, candidate) # {} =>
              PeakLevelOf(fuelHistory["v1"], candidate) = PeakLevelOf(appended, candidate)

\* C37: whenever a reading is about to be tested, every reading appended before it and
\* stamped within timeWindowMinutes before it is still in the window of its vehicle:
\* neither the 2-hour horizon nor the cap of 500 changes a detection.
C37_Retained ==
    (arg \in [run : WindowRuns] /\ ret.appended < WindowAppends) => NothingNeededEvicted

\* What holds: the same for readings stamped with the instant they arrive at, or later,
\* at most one a minute.
C37_Fresh ==
    (arg \in [run : {"live", "ahead", "backwards"}] /\ ret.appended < WindowAppends)
        => NothingNeededEvicted

\* The cap alone: a reading per second, the first at 90%; the 502nd is tested against a
\* window that has lost the first, 501 seconds older.
C37_Dense ==
    (arg \in [run : {"dense"}] /\ ret.appended < WindowAppends) => NothingNeededEvicted

\* ---- C38
\* The detection d was made under the config of this state.
TestedUnderConfig(d) ==
    /\ d.dropPercent = d.previousLevel - d.currentLevel
    /\ d.dropPercent >= config.dropThreshold
    /\ d.durationMs <= config.timeWindowMinutes * MsPerMinute

\* The alert the step put at the head of the sink carries the detection d, for the
\* vehicle id under the given name.
HandedOver(id, name, d) ==
    /\ alerts'[1].vehicleId = id
    /\ alerts'[1].vehicleName = name
    /\ alerts'[1].fuelDrop = d.dropPercent
    /\ alerts'[1].previousLevel = d.previousLevel
    /\ alerts'[1].currentLevel = d.currentLevel
    /\ alerts'[1].fuelDrop = alerts'[1].previousLevel - alerts'[1].currentLevel
    /\ alerts'[1].duration = MathRound(d.durationMs, MsPerMinute)
    /\ alerts'[1].duration * MsPerMinute <= d.durationMs + MsPerMinute \div 2

\* C38: a detection is made with a drop of previousLevel - currentLevel that is at least
\* the dropThreshold, and within the timeWindowMinutes, of the config in effect when its
\* reading is tested; the alert either pipeline then hands to the sink carries that
\* detection, whatever the config has become, for the vehicle of the reading, named
\* 'Unknown Vehicle' if the registry cache does not hold it.
C38_AlertFields ==
    [][ /\ \A t \in 1..MaxTasks :
              (tasks'[t].detection # NoDetection /\ tasks'[t].detection # tasks[t].detection)
                 => TestedUnderConfig(tasks'[t].detection)
        /\ (scan'.detection # NoDetection /\ scan'.detection # scan.detection)
              => TestedUnderConfig(scan'.detection)
        /\ alerts' # alerts =>
              \/ \E t \in 1..MaxTasks :
                     /\ tasks[t].pc \in {"ignition", "trips"}
                     /\ tasks'[t] # tasks[t]
                     /\ LET id == tasks[t].groups[1].deviceId
                        IN  HandedOver(id,
                                       IF \E k \in 1..Len(vehicleCache) : vehicleCache[k].id = id
                                       THEN (CHOOSE c \in Held(vehicleCache) : c.id = id).name
                                       ELSE "Unknown Vehicle",
                                       tasks[t].detection)
              \/ /\ scan.pc \in {"ignition", "trips"}
                 /\ scan' # scan
                 /\ HandedOver(scan.vehicles[scan.index].id, scan.vehicles[scan.index].name,
                               scan.detection) ]_vars

\* An alert for a device the cache does not hold is in the sink, raised for a drop that
\* the config, tightened while checkVehicleState was awaited, would no longer pass.
C38_Witness ==
    /\ Len(alerts) > 0
    /\ alerts[1].vehicleId = "v2"
    /\ alerts[1].vehicleName = "Unknown Vehicle"
    /\ config = spread(DefaultConfig, TighterConfig)
    /\ alerts[1].fuelDrop = 30
    /\ alerts[1].fuelDrop < config.dropThreshold
    /\ alerts[1].duration > config.timeWindowMinutes

====
